---- MODULE Spec2Model ----
(***************************************************************************)
(* VectorFlow: the pose-transition engine.                                 *)
(*                                                                         *)
(*   engine.js  route resolution, duration precedence, step expansion      *)
(*   player.js  playStep / playSteps / runAction (promises, anime tweens)  *)
(*   index.js   the VectorFlow class: play(), stop(), the notifications    *)
(*                                                                         *)
(* JavaScript runs one job at a time.  A job is a synchronous segment of   *)
(* code: a call made by the page (play, stop), an animation frame of the   *)
(* tween library, or the continuation of an `await` (a promise reaction,   *)
(* queued in FIFO order and run before the next animation frame).  Each    *)
(* action below is one such segment, translated whole.                     *)
(*                                                                         *)
(* The page's code runs in tasks of its own (when no job is queued), and   *)
(* between the jobs of a task it takes part in: the task it started by     *)
(* calling play() or stop(), and the jobs after a notification was handed  *)
(* to its listeners or a promise of play() settled, since a listener or an *)
(* `await vf.play(..)` may queue a continuation of the page's.             *)
(***************************************************************************)
EXTENDS Integers, Sequences, FiniteSets, TLC

(***************************************************************************)
(* Values                                                                  *)
(***************************************************************************)
\* A duration candidate as JavaScript sees it: <<>> is undefined, <<n>> the
\* finite number n, and the other values of type number and a value of
\* another type (a string) are the tuples below.
Undefined == <<>>
Num(n) == <<n>>
PosInfinity == <<1, 1>>
NegInfinity == <<-1, 1>>
NaN == <<0, 1>>
Text == <<0, 0, 0>>
\* typeof v === 'number'
IsNumber(v) == Len(v) \in {1, 2}
IsFinite(v) == Len(v) = 1
Val(v) == v[1]
\* v > 0
Positive(v) == IF IsFinite(v) THEN Val(v) > 0 ELSE v = PosInfinity
\* a ?? b
Coalesce(a, b) == IF a # <<>> THEN a ELSE b

Last(s) == s[Len(s)]

(***************************************************************************)
(* engine.js                                                               *)
(***************************************************************************)
\* A route table is a function from route keys to route blocks; a block is
\* [ms |-> optional number, paths |-> function from a source key (a State
\* name or "*") to a path].
HasRoute(routes, key) == key \in DOMAIN routes

\* resolvePath as it would be if the wildcard were tried before the path of
\* the current State.
resolvePath_WildcardFirst(targetState, currentState, routes) ==
  IF ~HasRoute(routes, targetState) THEN <<targetState>>
  ELSE LET routeBlock == routes[targetState] IN
       IF "*" \in DOMAIN routeBlock.paths
         THEN routeBlock.paths["*"]
       ELSE IF currentState \in DOMAIN routeBlock.paths
         THEN routeBlock.paths[currentState]
       ELSE <<targetState>>

\* resolvePath as it would be without the wildcard.
resolvePath_NoWildcard(targetState, currentState, routes) ==
  IF ~HasRoute(routes, targetState) THEN <<targetState>>
  ELSE LET routeBlock == routes[targetState] IN
       IF currentState \in DOMAIN routeBlock.paths
         THEN routeBlock.paths[currentState]
       ELSE <<targetState>>

\* resolvePath as it would be if a block without a usable path gave no path.
resolvePath_NoFallback(targetState, currentState, routes) ==
  IF ~HasRoute(routes, targetState) THEN <<targetState>>
  ELSE LET routeBlock == routes[targetState] IN
       IF currentState \in DOMAIN routeBlock.paths
         THEN routeBlock.paths[currentState]
       ELSE IF "*" \in DOMAIN routeBlock.paths
         THEN routeBlock.paths["*"]
       ELSE <<>>

resolvePath(targetState, currentState, routes) ==
  IF ~HasRoute(routes, targetState) THEN <<targetState>>
  ELSE LET routeBlock == routes[targetState] IN
       IF currentState \in DOMAIN routeBlock.paths
         THEN routeBlock.paths[currentState]
       ELSE IF "*" \in DOMAIN routeBlock.paths
         THEN routeBlock.paths["*"]
       ELSE <<targetState>>

normalizePath(path, currentState) ==
  IF Len(path) > 0 /\ path[1] = currentState THEN Tail(path) ELSE path

FallbackMs == 120

\* resolveMs as it would be without the `> 0` tests.
resolveMs_AnyNumber(actionMs, routeMs, jsonMs) ==
  IF IsNumber(actionMs) THEN actionMs
  ELSE IF IsNumber(routeMs) THEN routeMs
  ELSE IF IsNumber(jsonMs) THEN jsonMs
  ELSE Num(FallbackMs)

resolveMs(actionMs, routeMs, jsonMs) ==
  IF IsNumber(actionMs) /\ Positive(actionMs) THEN actionMs
  ELSE IF IsNumber(routeMs) /\ Positive(routeMs) THEN routeMs
  ELSE IF IsNumber(jsonMs) /\ Positive(jsonMs) THEN jsonMs
  ELSE Num(FallbackMs)

\* routes[key]?.ms
RouteBlockMs(routes, key) ==
  IF HasRoute(routes, key) THEN routes[key].ms ELSE Undefined

\* routes[routeKey]?.ms ?? routes[nextState]?.ms
StepRouteMs(routes, routeKey, nextState) ==
  Coalesce(RouteBlockMs(routes, routeKey), RouteBlockMs(routes, nextState))

\* The result of an expansion: either the Steps and the final pointer, or the
\* unknown-state error (the route key and the State named by the message).
Expanded(steps, current) ==
  [ok |-> TRUE, steps |-> steps, finalState |-> current,
   routeKey |-> "", state |-> ""]
UnknownState(routeKey, state) ==
  [ok |-> FALSE, steps |-> <<>>, finalState |-> "",
   routeKey |-> routeKey, state |-> state]

\* The inner loop of expandSequence: for (const nextState of path).
RECURSIVE VisitPath(_, _, _, _, _, _, _, _)
\* The inner loop as it would be if only the last State of a path were
\* validated.
VisitPath_ChecksLast(path, k, routeKey, routes, actionMs, jsonMs, validStates, acc) ==
  IF k > Len(path) THEN acc
  ELSE LET nextState == path[k] IN
       IF k = Len(path) /\ nextState \notin validStates
         THEN UnknownState(routeKey, nextState)
       ELSE LET ms == resolveMs(actionMs,
                                StepRouteMs(routes, routeKey, nextState), jsonMs)
            IN VisitPath(path, k + 1, routeKey, routes, actionMs, jsonMs,
                         validStates,
                         Expanded(Append(acc.steps, [state |-> nextState, ms |-> ms]),
                                  nextState))

\* The inner loop as it would be without `current = nextState`.
VisitPath_PointerStays(path, k, routeKey, routes, actionMs, jsonMs, validStates, acc) ==
  IF k > Len(path) THEN acc
  ELSE LET nextState == path[k] IN
       IF nextState \notin validStates THEN UnknownState(routeKey, nextState)
       ELSE LET ms == resolveMs(actionMs,
                                StepRouteMs(routes, routeKey, nextState), jsonMs)
            IN VisitPath(path, k + 1, routeKey, routes, actionMs, jsonMs,
                         validStates,
                         Expanded(Append(acc.steps, [state |-> nextState, ms |-> ms]),
                                  acc.finalState))

VisitPath(path, k, routeKey, routes, actionMs, jsonMs, validStates, acc) ==
  IF k > Len(path) THEN acc
  ELSE LET nextState == path[k] IN
       IF nextState \notin validStates THEN UnknownState(routeKey, nextState)
       ELSE LET ms == resolveMs(actionMs,
                                StepRouteMs(routes, routeKey, nextState), jsonMs)
            IN VisitPath(path, k + 1, routeKey, routes, actionMs, jsonMs,
                         validStates,
                         Expanded(Append(acc.steps, [state |-> nextState, ms |-> ms]),
                                  nextState))

\* The outer loop of expandSequence: for (const routeKey of order).
RECURSIVE SequenceFrom(_, _, _, _, _, _, _)
SequenceFrom(order, i, routes, actionMs, jsonMs, validStates, acc) ==
  IF i > Len(order) THEN acc
  ELSE LET routeKey == order[i]
           path == normalizePath(resolvePath(routeKey, acc.finalState, routes),
                                 acc.finalState)
           next == IF Len(path) = 0 THEN acc
                   ELSE VisitPath(path, 1, routeKey, routes, actionMs, jsonMs,
                                  validStates, acc)
       IN IF next.ok
            THEN SequenceFrom(order, i + 1, routes, actionMs, jsonMs,
                              validStates, next)
            ELSE next

expandSequence(order, currentState, routes, actionMs, jsonMs, validStates) ==
  SequenceFrom(order, 1, routes, actionMs, jsonMs, validStates,
               Expanded(<<>>, currentState))

\* The loop of expandDirect.  path[path.length - 1] of an empty path is
\* undefined, which is no member of validStates.
RECURSIVE DirectFrom(_, _, _, _, _, _, _)
\* The loop of expandDirect as it would be if an entry with an empty path were
\* passed over.
DirectFrom_SkipsEmptyPath(order, i, routes, actionMs, jsonMs, validStates, acc) ==
  IF i > Len(order) THEN acc
  ELSE LET routeKey == order[i]
           current == acc.finalState
           path == resolvePath(routeKey, current, routes)
           targetState == IF Len(path) = 0 THEN current ELSE Last(path)
       IN IF targetState \notin validStates
            THEN UnknownState(routeKey, targetState)
          ELSE IF targetState = current
            THEN DirectFrom(order, i + 1, routes, actionMs, jsonMs,
                            validStates, acc)
          ELSE LET ms == resolveMs(actionMs,
                                   StepRouteMs(routes, routeKey, targetState),
                                   jsonMs)
               IN DirectFrom(order, i + 1, routes, actionMs, jsonMs, validStates,
                             Expanded(Append(acc.steps,
                                             [state |-> targetState, ms |-> ms]),
                                      targetState))

\* The loop of expandDirect as it would be without the skip of an entry whose
\* destination is the current pointer.
DirectFrom_NoSkip(order, i, routes, actionMs, jsonMs, validStates, acc) ==
  IF i > Len(order) THEN acc
  ELSE LET routeKey == order[i]
           current == acc.finalState
           path == resolvePath(routeKey, current, routes)
           targetState == IF Len(path) = 0 THEN "undefined" ELSE Last(path)
       IN IF targetState \notin validStates
            THEN UnknownState(routeKey, targetState)
          ELSE LET ms == resolveMs(actionMs,
                                   StepRouteMs(routes, routeKey, targetState),
                                   jsonMs)
               IN DirectFrom(order, i + 1, routes, actionMs, jsonMs, validStates,
                             Expanded(Append(acc.steps,
                                             [state |-> targetState, ms |-> ms]),
                                      targetState))

DirectFrom(order, i, routes, actionMs, jsonMs, validStates, acc) ==
  IF i > Len(order) THEN acc
  ELSE LET routeKey == order[i]
           current == acc.finalState
           path == resolvePath(routeKey, current, routes)
           targetState == IF Len(path) = 0 THEN "undefined" ELSE Last(path)
       IN IF targetState \notin validStates
            THEN UnknownState(routeKey, targetState)
          ELSE IF targetState = current
            THEN DirectFrom(order, i + 1, routes, actionMs, jsonMs,
                            validStates, acc)
          ELSE LET ms == resolveMs(actionMs,
                                   StepRouteMs(routes, routeKey, targetState),
                                   jsonMs)
               IN DirectFrom(order, i + 1, routes, actionMs, jsonMs, validStates,
                             Expanded(Append(acc.steps,
                                             [state |-> targetState, ms |-> ms]),
                                      targetState))

expandDirect(order, currentState, routes, actionMs, jsonMs, validStates) ==
  DirectFrom(order, 1, routes, actionMs, jsonMs, validStates,
             Expanded(<<>>, currentState))

(***************************************************************************)
(* The configuration and the markup of the engine instance under test     *)
(***************************************************************************)
\* The discovered States (this._validStates) and Parts, in document order.
ValidStates == {"left", "center", "right", "rest"}
PartOrder == <<"body", "arm">>
Parts == {PartOrder[k] : k \in 1..Len(PartOrder)}

\* One animation frame of the tween library, in milliseconds.
FrameMs == 60

\* config.ms as normalized by parseAndValidateJSON.
GlobalMs == Num(120)

\* config.routes.  "hop" and "flip" are route keys that are no State; "ghost"
\* is a State name no state group declares.
Routes ==
  [left   |-> [ms |-> Undefined,
               paths |-> [star \in {"*"} |-> <<"left">>] @@
                         [src \in {"right"} |-> <<"center", "left">>]],
   right  |-> [ms |-> Undefined,
               paths |-> [star \in {"*"} |-> <<"right">>] @@
                         [src \in {"left"} |-> <<"center", "right">>]],
   center |-> [ms |-> Num(60),
               paths |-> [star \in {"*"} |-> <<"center">>]],
   hop    |-> [ms |-> Undefined,
               paths |-> [src \in {"center"} |-> <<"left">>] @@
                         [src \in {"left"} |-> <<"ghost">>]],
   flip   |-> [ms |-> Undefined,
               paths |-> [src \in {"center", "right"} |-> <<"left">>] @@
                         [src \in {"left"} |-> <<"right">>]]]

\* config.actions as normalized by parseAndValidateJSON.
SequenceAction(order) ==
  [type |-> "sequence", order |-> order, ms |-> Undefined,
   count |-> Undefined, mode |-> "undefined"]
LoopAction(order, count, mode) ==
  [type |-> "loop", order |-> order, ms |-> Undefined,
   count |-> Num(count), mode |-> mode]

Actions ==
  [toLeft  |-> SequenceAction(<<"left">>),
   toRight |-> SequenceAction(<<"right">>),
   stay    |-> SequenceAction(<<"center">>),
   bad     |-> SequenceAction(<<"ghost">>),
   empty   |-> SequenceAction(<<>>),
   shuffle |-> LoopAction(<<"left", "right">>, 2, "direct"),
   hop     |-> LoopAction(<<"hop">>, 2, "undefined"),
   swing   |-> LoopAction(<<"flip">>, 3, "undefined"),
   idle    |-> LoopAction(<<"center">>, 2, "undefined")]

\* The names the page calls play() with: in one run actions that play, and
\* "nope", which is no registered action; in another actions that fail; in
\* another an action without instructions and one that has no Step to make
\* from the initial State; in the last loops.
PlaybackNames == {"toLeft", "shuffle", "nope"}
FailingNames == {"bad", "hop", "shuffle"}
NoopNames == {"empty", "stay", "toLeft"}
LoopNames == {"swing", "idle", "toRight"}
RestNames == {"toLeft", "toRight"}
HeardNames == {"toLeft", "toRight"}

\* this._stateSnapshots: per State and Part, the numeric attributes the part
\* carries (x, when it carries any) and the horizontal translation of the
\* transform, read from the state groups.  In "rest" the body is an element
\* without an x attribute.
Snap(x, tx) == [numericAttrs |-> [attr \in {"x"} |-> x], tx |-> tx]
SnapWithoutX(tx) == [numericAttrs |-> [attr \in {} |-> 0], tx |-> tx]
StateSnapshots ==
  [center |-> [body |-> Snap(2, 0), arm |-> Snap(2, 0)],
   left   |-> [body |-> Snap(0, 0), arm |-> Snap(0, 2)],
   right  |-> [body |-> Snap(0, 2), arm |-> Snap(0, 0)],
   rest   |-> [body |-> SnapWithoutX(0), arm |-> Snap(2, 0)]]

\* How many play() calls the page makes; fewer when it plays loops, which
\* run for many Steps.
MaxPlays == 3
MaxLoopPlays == 2
PlayBudget(names) == IF names = LoopNames THEN MaxLoopPlays ELSE MaxPlays

(***************************************************************************)
(* The engine instance and the JavaScript run time around it              *)
(*                                                                         *)
(* A world w is a record:                                                  *)
(*   abortController    this._abortController: 0 is null, else the id of   *)
(*                      the AbortController (the id of the play() call     *)
(*                      that created it)                                    *)
(*   aborted            per call id, signal.aborted of its controller       *)
(*   currentActionName  this._currentActionName (Null is null)             *)
(*   currentState       this._currentState                                 *)
(*   live               the live parts' attribute values                   *)
(*   anims              the tween library's active animations, in the      *)
(*                      order they were created                            *)
(*   calls              per play() call, its frames (play, runAction,      *)
(*                      playSteps, playStep) and the state of its promise   *)
(*   jobs               the promise reaction jobs, in FIFO order           *)
(*   log                the notifications emitted so far                   *)
(*   page               whether code of the page takes part in the task    *)
(***************************************************************************)
Null == "null"

Event(type, arg, id) == [type |-> type, arg |-> arg, id |-> id]

\* VectorFlow._emit.
Emit(w, type, arg, id) ==
  [w EXCEPT !.log = Append(@, Event(type, arg, id)), !.page = TRUE]

\* A job: the continuation of the `await` in frame `at` of call id.
Job(id, at) == [id |-> id, at |-> at]

\* The frames of one play() call.
NewCall(name, before) ==
  [name |-> name,            \* actionName
   signal |-> 0,             \* the signal handed to runAction
   outcome |-> "pending",    \* the promise play() returned
   before |-> before,        \* this._currentState when play() was called
   start |-> before,         \* runAction: currentState
   current |-> before,       \* runAction: current
   i |-> 0,                  \* runAction: i
   steps |-> <<>>,           \* playSteps: the Steps not yet completed
   lastState |-> Null,       \* playSteps: lastState
   promise |-> "none",       \* playStep: the promise of the Step in flight
   completedCount |-> 0,     \* playStep: completedCount
   ret |-> Null,             \* the value an awaited promise fulfilled with
   exc |-> "none",           \* or the exception it rejected with
   thrown |-> "none",        \* the exception play() caught or threw
   stoppedAt |-> Null]       \* this._currentState when stop() interrupted
                             \* a tween of this call (for the properties)

SelectAnims(anims, Keep(_)) == SelectSeq(anims, Keep)

\* AbortController.abort(): raises the flag and runs the onAbort listener of
\* every playStep registered on the signal (player.js, onAbort): the Step's
\* animations are removed and its promise is rejected with AbortError.
RECURSIVE RejectPending(_, _, _)
RejectPending(w, c, id) ==
  IF id > Len(w.calls) THEN w
  ELSE IF w.calls[id].signal = c /\ w.calls[id].promise = "pending"
    THEN RejectPending([w EXCEPT !.calls[id].promise = "rejected",
                                 !.jobs = Append(@, Job(id, "playSteps"))],
                       c, id + 1)
    ELSE RejectPending(w, c, id + 1)

onAbort(w, c) ==
  LET Keep(a) == a.signal # c
  IN RejectPending([w EXCEPT !.anims = SelectAnims(@, Keep)], c, 1)

abort(w, c) ==
  IF w.aborted[c] THEN w
  ELSE onAbort([w EXCEPT !.aborted[c] = TRUE], c)

\* VectorFlow.stop.
stop(w) ==
  IF w.abortController # 0
    THEN LET w1 == [abort(w, w.abortController) EXCEPT !.abortController = 0]
         IN IF w1.currentActionName # Null
              THEN Emit([w1 EXCEPT !.currentActionName = Null],
                        "actionEnd", w1.currentActionName, w.abortController)
              ELSE w1
    ELSE w

\* VectorFlow.isPlaying and VectorFlow.currentAction.
isPlaying(w) == w.abortController # 0 /\ ~w.aborted[w.abortController]
currentAction(w) == w.currentActionName

(***************************************************************************)
(* player.js: playStep                                                     *)
(***************************************************************************)
\* lerp(a, b, t) at t = elapsed / ms, in whole units (rounded down).
lerp(a, b, elapsed, ms) == a + ((b - a) * elapsed) \div ms

\* An animation of the tween library: kind "num" is the batched numeric
\* tween of a part (the one carrying the `complete` callback), kind "ct" the
\* tick-driven color/transform tween (the one carrying `update`).
Anim(id, signal, part, kind, from, to, ms) ==
  [id |-> id, signal |-> signal, part |-> part, kind |-> kind,
   from |-> from, to |-> to, ms |-> ms, elapsed |-> 0]

\* resolve() of the Step's promise; a settled promise stays as it is.  The
\* reaction job is queued once playSteps awaits the promise.
resolve(w, id, awaited) ==
  IF w.calls[id].promise # "pending" THEN w
  ELSE [w EXCEPT !.calls[id].promise = "resolved",
                 !.jobs = IF awaited THEN Append(@, Job(id, "playSteps")) ELSE @]

\* animeConfig.complete.
complete(w, id, awaited) ==
  LET w1 == [w EXCEPT !.calls[id].completedCount = @ + 1]
  IN IF w1.calls[id].completedCount >= Len(PartOrder)
       THEN resolve(w1, id, awaited)
       ELSE w1

\* The body of `for (const [partName, liveEl] of liveParts)`.
RECURSIVE AnimateParts(_, _, _, _)
AnimateParts(w, id, step, k) ==
  IF k > Len(PartOrder) THEN w
  ELSE LET partName == PartOrder[k]
           targetSnap == StateSnapshots[step.state][partName]
           currentSnap == w.live[partName]
           signal == w.calls[id].signal
           transformAnim == currentSnap.tx # targetSnap.tx
           \* for (const [attr, targetVal] of entries(targetSnap.numericAttrs)):
           \* currentVal = currentSnap.numericAttrs[attr] ?? targetVal
           Changes(attr) ==
             LET targetVal == targetSnap.numericAttrs[attr]
                 currentVal == IF attr \in DOMAIN currentSnap.numericAttrs
                                 THEN currentSnap.numericAttrs[attr]
                                 ELSE targetVal
             IN currentVal # targetVal
           hasNumericChanges ==
             \E attr \in DOMAIN targetSnap.numericAttrs : Changes(attr)
           w1 == IF transformAnim
                   THEN [w EXCEPT !.anims =
                           Append(@, Anim(id, signal, partName, "ct",
                                          currentSnap.tx, targetSnap.tx,
                                          Val(step.ms)))]
                   ELSE w
           w2 == IF hasNumericChanges
                   THEN [w1 EXCEPT !.anims =
                           Append(@, Anim(id, signal, partName, "num",
                                          currentSnap.numericAttrs.x,
                                          targetSnap.numericAttrs.x,
                                          Val(step.ms)))]
                   ELSE complete(w1, id, FALSE)
       IN AnimateParts(w2, id, step, k + 1)

\* The executor of the promise playStep returns.
playStep(w, id, step) ==
  IF w.aborted[w.calls[id].signal]
    THEN [w EXCEPT !.calls[id].promise = "rejected"]
    ELSE AnimateParts([w EXCEPT !.calls[id].promise = "pending",
                                !.calls[id].completedCount = 0],
                      id, step, 1)

(***************************************************************************)
(* player.js: playSteps and runAction                                      *)
(***************************************************************************)
\* An async function returned (exc = "none") or threw: its promise settles
\* and the `await` of its caller is queued.
Settle(w, id, at, ret, exc) ==
  [w EXCEPT !.calls[id].ret = ret, !.calls[id].exc = exc,
            !.jobs = Append(@, Job(id, at))]

\* The head of playSteps' loop, for the Steps left in calls[id].steps.
PlayNextStep(w, id) ==
  LET c == w.calls[id] IN
  IF Len(c.steps) = 0 THEN Settle(w, id, "runAction", c.lastState, "none")
  ELSE IF w.aborted[c.signal] THEN Settle(w, id, "runAction", Null, "abort")
  ELSE LET w1 == playStep(w, id, c.steps[1])
       IN IF w1.calls[id].promise # "pending"
            THEN [w1 EXCEPT !.jobs = Append(@, Job(id, "playSteps"))]
            ELSE w1

playSteps(w, id, steps) ==
  PlayNextStep([w EXCEPT !.calls[id].steps = steps,
                         !.calls[id].lastState = Null], id)

\* The callback as it would be if it recorded the action's name instead of
\* the State it is called with.
onStateChange_RecordsAction(w, id, state) ==
  Emit([w EXCEPT !.currentState = w.calls[id].name], "stateChange", state, id)

\* The onStateChange callback play() hands to runAction.
onStateChange(w, id, state) ==
  Emit([w EXCEPT !.currentState = state], "stateChange", state, id)

\* playSteps after `await playStep(...)`.
ResumePlaySteps(w, id) ==
  LET c == w.calls[id] IN
  IF c.promise = "rejected"
    THEN Settle([w EXCEPT !.calls[id].promise = "none"],
                id, "runAction", Null, "abort")
    ELSE LET step == c.steps[1]
             w1 == [w EXCEPT !.calls[id].promise = "none",
                             !.calls[id].lastState = step.state,
                             !.calls[id].steps = Tail(@)]
         IN PlayNextStep(onStateChange(w1, id, step.state), id)

\* a || b for State names
OrElse(a, b) == IF a # Null THEN a ELSE b

\* action.count || 99999
DefaultCount == 99999
LoopCount(action) ==
  IF IsFinite(action.count) /\ Val(action.count) # 0
    THEN Val(action.count) ELSE DefaultCount

expand(action, current) ==
  IF action.type = "loop" /\ action.mode = "direct"
    THEN expandDirect(action.order, current, Routes, action.ms, GlobalMs,
                      ValidStates)
    ELSE expandSequence(action.order, current, Routes, action.ms, GlobalMs,
                        ValidStates)

\* The loop of runAction as it would be if an iteration without Steps ended
\* the loop.
RunLoop_ZeroStepsEnds(w, id) ==
  LET c == w.calls[id]
      action == Actions[c.name]
  IN IF c.i >= LoopCount(action)
       THEN Settle(w, id, "play", c.current, "none")
     ELSE IF w.aborted[c.signal]
       THEN Settle(w, id, "play", Null, "abort")
     ELSE LET result == expand(action, c.current)
          IN IF ~result.ok THEN Settle(w, id, "play", Null, "error")
             ELSE IF Len(result.steps) > 0 THEN playSteps(w, id, result.steps)
             ELSE Settle(w, id, "play", c.current, "none")

\* The loop of runAction for a loop action, from iteration calls[id].i.
RECURSIVE RunLoop(_, _)
RunLoop(w, id) ==
  LET c == w.calls[id]
      action == Actions[c.name]
  IN IF c.i >= LoopCount(action)
       THEN Settle(w, id, "play", c.current, "none")
     ELSE IF w.aborted[c.signal]
       THEN Settle(w, id, "play", Null, "abort")
     ELSE LET result == expand(action, c.current)
          IN IF ~result.ok THEN Settle(w, id, "play", Null, "error")
             ELSE IF Len(result.steps) > 0 THEN playSteps(w, id, result.steps)
             ELSE RunLoop([w EXCEPT !.calls[id].i = @ + 1], id)

runAction(w, id) ==
  LET c == w.calls[id]
      action == Actions[c.name]
  IN IF action.type = "loop" THEN RunLoop(w, id)
     ELSE LET result == expand(action, c.start)
          IN IF ~result.ok THEN Settle(w, id, "play", Null, "error")
             ELSE IF Len(result.steps) > 0 THEN playSteps(w, id, result.steps)
             ELSE Settle(w, id, "play", c.start, "none")

\* runAction after `await playSteps(...)` as it would be if the loop kept
\* expanding from the State the action started in.
ResumeRunAction_FromStart(w, id) ==
  LET c == w.calls[id]
      action == Actions[c.name]
  IN IF c.exc # "none" THEN Settle(w, id, "play", Null, c.exc)
     ELSE IF action.type = "loop"
       THEN RunLoop([w EXCEPT !.calls[id].current = c.start,
                              !.calls[id].i = @ + 1], id)
       ELSE Settle(w, id, "play", OrElse(c.ret, c.start), "none")

\* runAction after `await playSteps(...)`.
ResumeRunAction(w, id) ==
  LET c == w.calls[id]
      action == Actions[c.name]
  IN IF c.exc # "none" THEN Settle(w, id, "play", Null, c.exc)
     ELSE IF action.type = "loop"
       THEN RunLoop([w EXCEPT !.calls[id].current = OrElse(c.ret, c.current),
                              !.calls[id].i = @ + 1], id)
       ELSE Settle(w, id, "play", OrElse(c.ret, c.start), "none")

(***************************************************************************)
(* index.js: VectorFlow.play                                               *)
(***************************************************************************)
\* play() as it would be if it cancelled the running action before looking
\* the name up.
play_StopFirst(w, actionName) ==
  LET id == Len(w.calls) + 1
      w0 == stop([w EXCEPT !.calls = Append(@, NewCall(actionName, w.currentState)),
                           !.aborted = Append(@, FALSE)])
  IN IF actionName \notin DOMAIN Actions
       THEN Emit([w0 EXCEPT !.calls[id].outcome = "rejected",
                            !.calls[id].thrown = "error"],
                 "error", "unknown-action", id)
     ELSE IF Len(Actions[actionName].order) = 0
       THEN [w0 EXCEPT !.calls[id].outcome = "fulfilled"]
     ELSE LET w2 == Emit([w0 EXCEPT !.abortController = id,
                                    !.currentActionName = actionName],
                         "actionStart", actionName, id)
              w3 == [w2 EXCEPT !.calls[id].signal = w2.abortController,
                               !.calls[id].start = w2.currentState,
                               !.calls[id].current = w2.currentState]
          IN runAction(w3, id)

\* play() as it would be without the early return for an action that has no
\* instructions.
play_NoEmptyGuard(w, actionName) ==
  LET id == Len(w.calls) + 1
      w0 == [w EXCEPT !.calls = Append(@, NewCall(actionName, w.currentState)),
                      !.aborted = Append(@, FALSE)]
  IN IF actionName \notin DOMAIN Actions
       THEN Emit([w0 EXCEPT !.calls[id].outcome = "rejected",
                            !.calls[id].thrown = "error"],
                 "error", "unknown-action", id)
     ELSE LET w1 == stop(w0)
              w2 == Emit([w1 EXCEPT !.abortController = id,
                                    !.currentActionName = actionName],
                         "actionStart", actionName, id)
              w3 == [w2 EXCEPT !.calls[id].signal = w2.abortController,
                               !.calls[id].start = w2.currentState,
                               !.calls[id].current = w2.currentState]
          IN runAction(w3, id)

\* play() up to its first `await` (or to its return).
play(w, actionName) ==
  LET id == Len(w.calls) + 1
      w0 == [w EXCEPT !.calls = Append(@, NewCall(actionName, w.currentState)),
                      !.aborted = Append(@, FALSE)]
  IN IF actionName \notin DOMAIN Actions
       THEN Emit([w0 EXCEPT !.calls[id].outcome = "rejected",
                            !.calls[id].thrown = "error"],
                 "error", "unknown-action", id)
     ELSE IF Len(Actions[actionName].order) = 0
       THEN [w0 EXCEPT !.calls[id].outcome = "fulfilled"]
     ELSE LET w1 == stop(w0)
              w2 == Emit([w1 EXCEPT !.abortController = id,
                                    !.currentActionName = actionName],
                         "actionStart", actionName, id)
              w3 == [w2 EXCEPT !.calls[id].signal = w2.abortController,
                               !.calls[id].start = w2.currentState,
                               !.calls[id].current = w2.currentState]
          IN runAction(w3, id)

\* What a listener of actionStart does when it is called: nothing, stop(),
\* or play() of another action (the listener is registered for one call).
Listen(w, reaction) ==
  IF reaction = "nothing" THEN w
  ELSE IF reaction = "stop" THEN stop(w)
  ELSE play(w, reaction)

\* play() with such a listener registered: _emit('actionStart') calls it, and
\* the arguments of runAction are read after it has returned.
\* `this._abortController.signal` throws a TypeError when the listener left
\* no controller; the catch block reports it.
playWithListener(w, actionName, reaction) ==
  LET id == Len(w.calls) + 1
      w0 == [w EXCEPT !.calls = Append(@, NewCall(actionName, w.currentState)),
                      !.aborted = Append(@, FALSE)]
  IN IF actionName \notin DOMAIN Actions
       THEN Emit([w0 EXCEPT !.calls[id].outcome = "rejected",
                            !.calls[id].thrown = "error"],
                 "error", "unknown-action", id)
     ELSE IF Len(Actions[actionName].order) = 0
       THEN [w0 EXCEPT !.calls[id].outcome = "fulfilled"]
     ELSE LET w1 == stop(w0)
              w2 == Listen(Emit([w1 EXCEPT !.abortController = id,
                                           !.currentActionName = actionName],
                                "actionStart", actionName, id),
                           reaction)
              w3 == [w2 EXCEPT !.calls[id].signal = w2.abortController,
                               !.calls[id].start = w2.currentState,
                               !.calls[id].current = w2.currentState]
          IN IF w2.abortController = 0
               THEN Emit([w2 EXCEPT !.currentActionName = Null,
                                    !.calls[id].outcome = "rejected",
                                    !.calls[id].thrown = "error"],
                         "error", "type-error", id)
               ELSE runAction(w3, id)

\* The normal completion of play(): the rest of the try block.
FinishPlay(w, id) ==
  LET c == w.calls[id]
      finalState == c.ret
      w1 == IF finalState # Null
              THEN [w EXCEPT !.currentState = finalState] ELSE w
  IN Emit([w1 EXCEPT !.currentActionName = Null,
                     !.calls[id].outcome = "fulfilled"],
          "actionEnd", c.name, id)

\* The catch block of play() as it would be without the AbortError test.
ResumePlay_AbortAsError(w, id) ==
  IF w.calls[id].exc = "none" THEN FinishPlay(w, id)
  ELSE Emit([w EXCEPT !.currentActionName = Null,
                      !.calls[id].outcome = "rejected",
                      !.calls[id].thrown = "error"],
            "error", "unknown-state", id)

\* The catch block of play() as it would be if it rethrew without notifying.
ResumePlay_SilentFailure(w, id) ==
  IF w.calls[id].exc = "none" THEN FinishPlay(w, id)
  ELSE IF w.calls[id].exc = "abort"
    THEN [w EXCEPT !.calls[id].outcome = "fulfilled",
                   !.calls[id].thrown = "abort",
                   !.page = TRUE]
  ELSE [w EXCEPT !.currentActionName = Null,
                 !.calls[id].outcome = "rejected",
                 !.calls[id].thrown = "error",
                 !.page = TRUE]

\* play() after `await runAction(...)`: the rest of the try block, or the
\* catch block.
ResumePlay(w, id) ==
  LET c == w.calls[id] IN
  IF c.exc = "none" THEN FinishPlay(w, id)
  ELSE IF c.exc = "abort"
    THEN [w EXCEPT !.calls[id].outcome = "fulfilled",
                   !.calls[id].thrown = "abort",
                   !.page = TRUE]
  ELSE Emit([w EXCEPT !.currentActionName = Null,
                      !.calls[id].outcome = "rejected",
                      !.calls[id].thrown = "error"],
            "error", "unknown-state", id)

(***************************************************************************)
(* One animation frame of the tween library                                *)
(***************************************************************************)
\* Every active animation advances by the frame's time, in creation order:
\* its value is written to the live part and, when its duration has elapsed,
\* it is removed and its `complete` callback (if it has one) is called.
RECURSIVE TickFrom(_, _, _)
TickFrom(w, anims, k) ==
  IF k > Len(anims) THEN w
  ELSE LET a == anims[k]
           elapsed == IF a.elapsed + FrameMs >= a.ms THEN a.ms
                      ELSE a.elapsed + FrameMs
           value == lerp(a.from, a.to, elapsed, a.ms)
           w1 == IF a.kind = "num"
                   THEN [w EXCEPT !.live[a.part].numericAttrs.x = value]
                   ELSE [w EXCEPT !.live[a.part].tx = value]
           w2 == IF elapsed < a.ms
                   THEN [w1 EXCEPT !.anims = Append(@, [a EXCEPT !.elapsed = elapsed])]
                 ELSE IF a.kind = "num" THEN complete(w1, a.id, TRUE)
                 ELSE w1
       IN TickFrom(w2, anims, k + 1)

tick(w) == TickFrom([w EXCEPT !.anims = <<>>, !.page = FALSE], w.anims, 1)

(***************************************************************************)
(* The state machine                                                       *)
(***************************************************************************)
VARIABLES abortController, aborted, currentActionName, currentState, live,
          anims, calls, jobs, log, page, menu, args, result

vars == <<abortController, aborted, currentActionName, currentState, live,
          anims, calls, jobs, log, page, menu, args, result>>

\* What the engine's operations leave alone: the names the page plays, and
\* the arguments and the result of a function of engine.js called on its own.
bench == <<menu, args, result>>

World ==
  [abortController |-> abortController, aborted |-> aborted,
   currentActionName |-> currentActionName, currentState |-> currentState,
   live |-> live, anims |-> anims, calls |-> calls, jobs |-> jobs, log |-> log,
   page |-> page]

Becomes(w) ==
  /\ abortController' = w.abortController
  /\ aborted' = w.aborted
  /\ currentActionName' = w.currentActionName
  /\ currentState' = w.currentState
  /\ live' = w.live
  /\ anims' = w.anims
  /\ calls' = w.calls
  /\ jobs' = w.jobs
  /\ log' = w.log
  /\ page' = w.page

\* The constructor: no controller, no action, the live parts cloned from the
\* state group of config.initial_state.
Constructed(initial_state) ==
  [abortController |-> 0, aborted |-> <<>>, currentActionName |-> Null,
   currentState |-> initial_state, live |-> StateSnapshots[initial_state],
   anims |-> <<>>, calls |-> <<>>, jobs |-> <<>>, log |-> <<>>, page |-> TRUE]

\* config.initial_state
InitialState == "center"

\* The engine as constructed; menu is the set of names the page calls play()
\* with.
Engine(initial_state, names) ==
    LET w == Constructed(initial_state) IN
    /\ menu = names
    /\ abortController = w.abortController
    /\ aborted = w.aborted
    /\ currentActionName = w.currentActionName
    /\ currentState = w.currentState
    /\ live = w.live
    /\ anims = w.anims
    /\ calls = w.calls
    /\ jobs = w.jobs
    /\ log = w.log
    /\ page = w.page

InitWith(initial_state, names) ==
    /\ Engine(initial_state, names)
    /\ args = Undefined
    /\ result = Undefined

Init == InitWith(InitialState, PlaybackNames)

InitFail == InitWith(InitialState, FailingNames)

InitNoop == InitWith(InitialState, NoopNames)

InitLoop == InitWith(InitialState, LoopNames)

\* The same markup with initial_state "rest": the live body is cloned from an
\* element without an x attribute.
InitRest == InitWith("rest", RestNames)

\* The page calls vf.play(actionName).
\* The page's code can run now: in the task it takes part in, or in a new
\* task, which starts when no job is queued.
PageRuns == page \/ jobs = <<>>

Play(actionName) ==
  /\ PageRuns
  /\ Len(calls) < PlayBudget(menu)
  /\ actionName \in menu
  /\ Becomes(play([World EXCEPT !.page = TRUE], actionName))
  /\ UNCHANGED bench

\* Whether a tween started by call id is running.
TweenInProgress(w, id) == \E k \in 1..Len(w.anims) : w.anims[k].id = id

\* The page calls vf.stop().  (stoppedAt notes the interruption of a tween.)
Stop ==
  LET id == abortController
      w == stop([World EXCEPT !.page = TRUE])
  IN /\ PageRuns
     /\ Becomes(IF id # 0 /\ TweenInProgress(World, id)
                  THEN [w EXCEPT !.calls[id].stoppedAt = currentState]
                  ELSE w)
     /\ UNCHANGED bench

\* The next promise reaction job runs.
RunPlaySteps ==
  /\ jobs # <<>> /\ Head(jobs).at = "playSteps"
  /\ Becomes(ResumePlaySteps([World EXCEPT !.jobs = Tail(@)], Head(jobs).id))
  /\ UNCHANGED bench

RunRunAction ==
  /\ jobs # <<>> /\ Head(jobs).at = "runAction"
  /\ Becomes(ResumeRunAction([World EXCEPT !.jobs = Tail(@)], Head(jobs).id))
  /\ UNCHANGED bench

RunPlay ==
  /\ jobs # <<>> /\ Head(jobs).at = "play"
  /\ Becomes(ResumePlay([World EXCEPT !.jobs = Tail(@)], Head(jobs).id))
  /\ UNCHANGED bench

\* The tween library's animation frame; it runs when no job is queued.
Frame ==
  /\ jobs = <<>> /\ anims # <<>>
  /\ Becomes(tick(World))
  /\ UNCHANGED bench

Next ==
  \/ \E actionName \in DOMAIN Actions \cup {"nope"} : Play(actionName)
  \/ Stop
  \/ RunPlaySteps
  \/ RunRunAction
  \/ RunPlay
  \/ Frame

Spec == Init /\ [][Next]_vars

SpecFail == InitFail /\ [][Next]_vars

SpecNoop == InitNoop /\ [][Next]_vars

SpecLoop == InitLoop /\ [][Next]_vars

SpecRest == InitRest /\ [][Next]_vars

\* The page calls vf.play(actionName) with a listener of actionStart
\* registered that calls stop() or play() of another action.
PlayHeard(actionName, reaction) ==
  /\ PageRuns
  /\ Len(calls) + (IF reaction = "stop" THEN 1 ELSE 2) <= PlayBudget(menu)
  /\ actionName \in menu
  /\ reaction \in menu \cup {"stop"}
  /\ Becomes(playWithListener([World EXCEPT !.page = TRUE], actionName, reaction))
  /\ UNCHANGED bench

NextHeard ==
  \/ Next
  \/ \E actionName \in DOMAIN Actions, reaction \in DOMAIN Actions \cup {"stop"} :
       PlayHeard(actionName, reaction)

InitHeard == InitWith(InitialState, HeardNames)

SpecHeard == InitHeard /\ [][NextHeard]_vars

\* Weak fairness of the jobs and of the animation frame, WF_vars(A) with the
\* enabling condition of A written out (A is enabled when its guard holds: a
\* job leaves the queue and a frame advances a tween, so the state changes).
JobQueued(at) == jobs # <<>> /\ Head(jobs).at = at
FrameDue == jobs = <<>> /\ anims # <<>>

Scheduling ==
  /\ (<>[]JobQueued("playSteps") => []<><<RunPlaySteps>>_vars)
  /\ (<>[]JobQueued("runAction") => []<><<RunRunAction>>_vars)
  /\ (<>[]JobQueued("play") => []<><<RunPlay>>_vars)
  /\ (<>[]FrameDue => []<><<Frame>>_vars)

\* The same with a run time that runs every queued job and a tween library
\* that delivers its animation frames.
SpecLoopFair == InitLoop /\ [][Next]_vars /\ Scheduling

(***************************************************************************)
(* engine.js called on its own: the arguments are drawn, the function is   *)
(* applied once                                                            *)
(***************************************************************************)
\* The longest path a route block declares.
MaxPathLen == 2

\* The paths a route block can declare (an empty array is accepted by
\* parseAndValidateJSON).
Paths == UNION {[1..k -> ValidStates] : k \in 0..MaxPathLen}

\* The route blocks over the source keys "center" and "*": each key declared
\* or not.
SourceKeys == {"center", "*"}
RouteBlocks ==
  {[ms |-> Undefined, paths |-> f] :
     f \in UNION {[D -> Paths] : D \in SUBSET SourceKeys}}

\* The route tables with a block for "left", or with no block at all.
RouteTables ==
  {<<>>} \cup {[key \in {"left"} |-> block] : block \in RouteBlocks}

ResolvePathInputs ==
  [fn : {"resolvePath"}, targetState : {"left", "right"},
   currentState : {"center", "right"}, routes : RouteTables]

\* The engine is constructed and idle; args holds the arguments of the call.
InitCall(inputs) ==
  /\ Engine(InitialState, {})
  /\ args \in inputs
  /\ result = Undefined

\* result holds <<the value the function returned>>.
Returned(fn) == args.fn = fn /\ result # Undefined

ResolvePath ==
  /\ args.fn = "resolvePath" /\ result = Undefined
  /\ result' = <<resolvePath(args.targetState, args.currentState, args.routes)>>
  /\ UNCHANGED <<abortController, aborted, currentActionName, currentState,
                 live, anims, calls, jobs, log, page, menu, args>>

InitResolvePath == InitCall(ResolvePathInputs)

SpecResolvePath == InitResolvePath /\ [][ResolvePath]_vars

\* The duration candidates: absent, not a number, numbers that are not
\* finite, and finite numbers below, at and above zero.
MsValues == {-1, 0, 5, 10, 20}
Candidates ==
  {Undefined, Text, NaN, PosInfinity, NegInfinity} \cup {Num(n) : n \in MsValues}

ResolveMsInputs ==
  [fn : {"resolveMs"}, actionMs : Candidates, routeMs : Candidates,
   jsonMs : Candidates]

ResolveMs ==
  /\ args.fn = "resolveMs" /\ result = Undefined
  /\ result' = <<resolveMs(args.actionMs, args.routeMs, args.jsonMs)>>
  /\ UNCHANGED <<abortController, aborted, currentActionName, currentState,
                 live, anims, calls, jobs, log, page, menu, args>>

InitResolveMs == InitCall(ResolveMsInputs)

SpecResolveMs == InitResolveMs /\ [][ResolveMs]_vars

\* The longest instruction list of an expansion.
MaxOrderLen == 2

\* How often the page calls a function with the same arguments.
MaxCalls == 2

\* The names a path of the expansions' route tables is made of: the States an
\* expansion starts from, and "ghost", which no state group declares.
StartStates == {"left", "center", "right"}
ExpandPaths ==
  UNION {[1..k -> StartStates \cup {"ghost"}] : k \in 0..MaxPathLen}

\* The route tables of the expansions: "hop" is a route key that is no State,
\* with a wildcard path of no name or more; "left" and "center" are States
\* with a block of their own; "right" has no block.  Each block has a
\* duration override or none.
HopBlocks ==
  {[ms |-> ms, paths |-> [star \in {"*"} |-> path]] :
     ms \in {Undefined, Num(10), Num(-1)}, path \in ExpandPaths}
LeftBlocks ==
  {[ms |-> ms, paths |-> [star \in {"*"} |-> <<"left">>] @@
                         [src \in {"right"} |-> <<"center", "left">>]] :
     ms \in {Undefined, Num(40)}}
CenterBlocks ==
  {[ms |-> ms, paths |-> <<>>] : ms \in {Undefined, Num(60)}}
ExpandTables ==
  {[hop |-> h, left |-> l, center |-> c] :
     h \in HopBlocks, l \in LeftBlocks, c \in CenterBlocks}

Orders == UNION {[1..k -> {"hop", "left"}] : k \in 1..MaxOrderLen}

ExpandInputs ==
  [fn : {"expandSequence", "expandDirect"}, order : Orders,
   currentState : StartStates, routes : ExpandTables,
   actionMs : {Undefined, Num(5), Num(0)}, jsonMs : {Num(20)}]

\* The call as it would be if `steps` were one array shared by the calls
\* instead of a local of each call.
Expand_SharedSteps(fn, order, current, routes, actionMs, jsonMs) ==
  LET own == IF fn = "expandDirect"
               THEN expandDirect(order, current, routes, actionMs, jsonMs,
                                 ValidStates)
               ELSE expandSequence(order, current, routes, actionMs, jsonMs,
                                   ValidStates)
  IN IF own.ok /\ result # <<>> /\ result[Len(result)].ok
       THEN [own EXCEPT !.steps = result[Len(result)].steps \o own.steps]
       ELSE own

\* expandFns[fn](order, currentState, routes, actionMs, jsonMs, validStates)
Expand(fn, order, current, routes, actionMs, jsonMs) ==
  IF fn = "expandDirect"
    THEN expandDirect(order, current, routes, actionMs, jsonMs, ValidStates)
    ELSE expandSequence(order, current, routes, actionMs, jsonMs, ValidStates)

\* One more call with the arguments in args: result holds the values the
\* calls returned, in order.  The functions of engine.js write to nothing but
\* their own `steps` array (path.slice copies), so args is as it was.
ExpandOrder ==
  /\ args.fn \in {"expandSequence", "expandDirect"} /\ Len(result) < MaxCalls
  /\ result' = Append(result,
                      Expand(args.fn, args.order, args.currentState,
                             args.routes, args.actionMs, args.jsonMs))
  /\ UNCHANGED <<abortController, aborted, currentActionName, currentState,
                 live, anims, calls, jobs, log, page, menu, args>>

InitExpand == InitCall(ExpandInputs)

SpecExpand == InitExpand /\ [][ExpandOrder]_vars

(***************************************************************************)
(* utils.js: colors                                                        *)
(*                                                                         *)
(* A color string is the sequence of its characters after the leading '#'  *)
(* (hexToRgb removes it); a parsed color is <<r, g, b>>, and <<>> is null. *)
(***************************************************************************)
HexDigits ==
  <<"0", "1", "2", "3", "4", "5", "6", "7", "8", "9", "a", "b", "c", "d", "e", "f">>

IsHexDigit(ch) == \E d \in 1..Len(HexDigits) : HexDigits[d] = ch
HexValue(ch) == (CHOOSE d \in 1..Len(HexDigits) : HexDigits[d] = ch) - 1

\* parseInt(hex, 16): the value of the longest prefix of hex digits, NaN when
\* the first character is no hex digit.
RECURSIVE ParseHex(_, _, _)
ParseHex(chars, k, acc) ==
  IF k > Len(chars) \/ ~IsHexDigit(chars[k])
    THEN IF k = 1 THEN NaN ELSE Num(acc)
    ELSE ParseHex(chars, k + 1, acc * 16 + HexValue(chars[k]))

None == <<"n", "o", "n", "e">>

hexToRgb(hex) ==
  IF hex = <<>> \/ hex = None THEN <<>>
  ELSE LET long == IF Len(hex) = 3
                     THEN <<hex[1], hex[1], hex[2], hex[2], hex[3], hex[3]>>
                     ELSE hex
           num == ParseHex(long, 1, 0)
       IN IF num = NaN THEN <<>>
          ELSE <<(Val(num) \div 65536) % 256, (Val(num) \div 256) % 256,
                 Val(num) % 256>>

\* toHex of rgbToHex for the channel value num / den (den > 0):
\* Math.round(Math.max(0, Math.min(255, n))) as two hex digits.
toHex(num, den) ==
  LET clamped == IF num < 0 THEN 0 ELSE IF num > 255 * den THEN 255 * den ELSE num
      rounded == (2 * clamped + den) \div (2 * den)
  IN <<HexDigits[(rounded \div 16) + 1], HexDigits[(rounded % 16) + 1]>>

\* lerpColor(colorA, colorB, t) at t = elapsed / ms; lerp(a, b, t) of a channel
\* is (a * ms + (b - a) * elapsed) / ms.
lerpColor(colorA, colorB, elapsed, ms) ==
  LET a == hexToRgb(colorA)
      b == hexToRgb(colorB)
      Channel(c) == toHex(a[c] * ms + (b[c] - a[c]) * elapsed, ms)
  IN IF a = <<>> \/ b = <<>>
       THEN IF colorB # <<>> THEN colorB
            ELSE IF colorA # <<>> THEN colorA
            ELSE <<"0", "0", "0", "0", "0", "0">>
       ELSE Channel(1) \o Channel(2) \o Channel(3)

\* The colors of a live part and of a snapshot, as readColorProp returns
\* them: '#f00', '#00f', '#ff0000', '#000080', and values normalizeColor
\* hands on as they are: '#ggg', '#ffzz00' and 'url(#g)'.
Colors ==
  {<<"f", "0", "0">>, <<"0", "0", "f">>,
   <<"f", "f", "0", "0", "0", "0">>, <<"0", "0", "0", "0", "8", "0">>,
   <<"g", "g", "g">>, <<"f", "f", "z", "z", "0", "0">>,
   <<"u", "r", "l", "(", "g", ")">>}

\* The durations of a Step, in frames of FrameMs and in a frame and a half.
ColorMsValues == {FrameMs, 2 * FrameMs, 3 * FrameMs, 2 * FrameMs + FrameMs \div 2}

\* The color tweens playStep makes: the live color differs from the target.
LerpColorInputs ==
  {call \in [fn : {"lerpColor"}, from : Colors, to : Colors, ms : ColorMsValues] :
     call.from # call.to}

\* The update callback of the color tween at the next animation frame (the
\* last one is at the end of the duration): result holds the values written
\* to the live part so far.
UpdateColor ==
  /\ args.fn = "lerpColor" /\ Len(result) * FrameMs < args.ms
  /\ LET elapsed == IF (Len(result) + 1) * FrameMs >= args.ms THEN args.ms
                    ELSE (Len(result) + 1) * FrameMs
     IN result' = Append(result, lerpColor(args.from, args.to, elapsed, args.ms))
  /\ UNCHANGED <<abortController, aborted, currentActionName, currentState,
                 live, anims, calls, jobs, log, page, menu, args>>

InitLerpColor == InitCall(LerpColorInputs)

SpecLerpColor == InitLerpColor /\ [][UpdateColor]_vars

(***************************************************************************)
(* utils.js: transforms                                                    *)
(*                                                                         *)
(* A transform string is the sequence of its components, each the function *)
(* name and its arguments; <<>> is null, no transform.                     *)
(***************************************************************************)
Component(name, values) == [name |-> name, values |-> values]

\* buildTransform as it would be with the scale pushed before the rotation.
buildTransform_ScaleFirst(t) ==
  (IF t.translateX # 0 \/ t.translateY # 0
     THEN <<Component("translate", <<t.translateX, t.translateY>>)>> ELSE <<>>)
  \o (IF t.scaleX # 1 \/ t.scaleY # 1
        THEN <<Component("scale", <<t.scaleX, t.scaleY>>)>> ELSE <<>>)
  \o (IF t.rotate # 0 THEN <<Component("rotate", <<t.rotate>>)>> ELSE <<>>)

\* buildTransform as it would be with the components of the identity written
\* out.
buildTransform_Verbose(t) ==
  <<Component("translate", <<t.translateX, t.translateY>>),
    Component("rotate", <<t.rotate>>),
    Component("scale", <<t.scaleX, t.scaleY>>)>>

\* parts.push(...) three times, then parts.join(' ') or null.
buildTransform(t) ==
  (IF t.translateX # 0 \/ t.translateY # 0
     THEN <<Component("translate", <<t.translateX, t.translateY>>)>> ELSE <<>>)
  \o (IF t.rotate # 0 THEN <<Component("rotate", <<t.rotate>>)>> ELSE <<>>)
  \o (IF t.scaleX # 1 \/ t.scaleY # 1
        THEN <<Component("scale", <<t.scaleX, t.scaleY>>)>> ELSE <<>>)

\* The channel values of a transform: the identity of each channel and
\* values on either side of it.
Translations == {-1, 0, 2}
Rotations == {0, 90}
Scales == {0, 1, 2}

BuildTransformInputs ==
  [fn : {"buildTransform"},
   transform : [translateX : Translations, translateY : Translations,
                scaleX : Scales, scaleY : Scales, rotate : Rotations]]

BuildTransform ==
  /\ args.fn = "buildTransform" /\ result = Undefined
  /\ result' = <<buildTransform(args.transform)>>
  /\ UNCHANGED <<abortController, aborted, currentActionName, currentState,
                 live, anims, calls, jobs, log, page, menu, args>>

InitBuildTransform == InitCall(BuildTransformInputs)

SpecBuildTransform == InitBuildTransform /\ [][BuildTransform]_vars

(***************************************************************************)
(* utils.js: the text of a transform                                       *)
(*                                                                         *)
(* The text of a transform attribute is the sequence of its characters;    *)
(* <<>> is null (and '', which is as falsy).  A channel of a parsed        *)
(* transform is a number value: Num(n), NaN, or <<0, 2>> for a number with *)
(* fraction digits, of which this model keeps no more.                     *)
(***************************************************************************)
DigitChars == <<"0", "1", "2", "3", "4", "5", "6", "7", "8", "9">>

\* ${n} of a template literal, for an integer n below 10^21.
RECURSIVE NumberToString(_)
NumberToString(n) ==
  IF n < 0 THEN <<"-">> \o NumberToString(0 - n)
  ELSE IF n < 10 THEN <<DigitChars[n + 1]>>
  ELSE NumberToString(n \div 10) \o <<DigitChars[(n % 10) + 1]>>

\* The function name and the parenthesis that open a component.
FunctionOpen(name) ==
  CASE name = "translate" -> <<"t", "r", "a", "n", "s", "l", "a", "t", "e", "(">>
    [] name = "rotate" -> <<"r", "o", "t", "a", "t", "e", "(">>
    [] name = "scale" -> <<"s", "c", "a", "l", "e", "(">>

\* parts.join(' ') of `translate(${translateX},${translateY})`,
\* `rotate(${rotate})` and `scale(${scaleX},${scaleY})`, or null when there
\* are no parts.
RECURSIVE join(_)
join(parts) ==
  LET part == Head(parts)
      first == FunctionOpen(part.name) \o NumberToString(part.values[1])
               \o (IF Len(part.values) = 2
                     THEN <<",">> \o NumberToString(part.values[2]) ELSE <<>>)
               \o <<")">>
  IN IF parts = <<>> THEN <<>>
     ELSE IF Len(parts) = 1 THEN first
     ELSE first \o <<" ">> \o join(Tail(parts))

\* The position after the longest run of characters of a class from
\* position i: \s*, [-\d.]+ and the digits parseFloat reads.  A run in the
\* patterns gains nothing from giving characters back: what follows it is
\* outside its class.
RECURSIVE Skip(_, _, _)
Skip(str, i, class) ==
  IF i <= Len(str) /\ str[i] \in class THEN Skip(str, i + 1, class) ELSE i

\* The value of the digits str[from..to - 1], after acc.
RECURSIVE DigitsValue(_, _, _, _)
DigitsValue(str, from, to, acc) ==
  IF from >= to THEN acc
  ELSE LET digit == (CHOOSE d \in 1..10 : DigitChars[d] = str[from]) - 1
       IN DigitsValue(str, from + 1, to, 10 * acc + digit)

\* parseFloat of a run of [-\d.]: the longest prefix that is a decimal
\* literal, NaN when there is none.
parseFloat(str) ==
  LET digits == {DigitChars[d] : d \in 1..10}
      negative == str # <<>> /\ str[1] = "-"
      first == IF negative THEN 2 ELSE 1
      point == Skip(str, first, digits)
      whole == DigitsValue(str, first, point, 0)
      end == IF point <= Len(str) /\ str[point] = "."
               THEN Skip(str, point + 1, digits) ELSE point
  IN IF point = first /\ end <= point + 1 THEN NaN
     ELSE IF \E k \in (point + 1)..(end - 1) : str[k] # "0" THEN <<0, 2>>
     ELSE Num(IF negative THEN 0 - whole ELSE whole)

\* The captures of a match that starts at position i, <<>> when there is
\* none, of /translate\(\s*([-\d.]+)\s*[,\s]\s*([-\d.]+)\s*\)/, of
\* /scale\(\s*([-\d.]+)(?:\s*[,\s]\s*([-\d.]+))?\s*\)/ (one capture when the
\* second argument is left out) and of /rotate\(\s*([-\d.]+)/.
CapturesAt(name, str, i) ==
  LET open == FunctionOpen(name)
      number == {DigitChars[d] : d \in 1..10} \cup {"-", "."}
      ClosesAt(k) == k <= Len(str) /\ str[k] = ")"
      a == Skip(str, i + Len(open), {" "})
      b == Skip(str, a, number)
      c == Skip(str, b, {" "})
      comma == c <= Len(str) /\ str[c] = ","
      d == IF comma THEN Skip(str, c + 1, {" "}) ELSE c
      e == Skip(str, d, number)
      second == (comma \/ c > b) /\ e > d /\ ClosesAt(Skip(str, e, {" "}))
      one == <<SubSeq(str, a, b - 1)>>
      two == <<SubSeq(str, a, b - 1), SubSeq(str, d, e - 1)>>
  IN IF \/ i + Len(open) - 1 > Len(str)
        \/ \E k \in 1..Len(open) : str[i + k - 1] # open[k]
        \/ b = a
       THEN <<>>
     ELSE CASE name = "translate" -> IF second THEN two ELSE <<>>
            [] name = "scale" -> IF second THEN two
                                 ELSE IF ClosesAt(c) THEN one ELSE <<>>
            [] name = "rotate" -> one

\* str.match(pattern): the captures of the leftmost match, <<>> for null.
Match(name, str) ==
  LET starts == {i \in 1..Len(str) : CapturesAt(name, str, i) # <<>>}
  IN IF starts = {} THEN <<>>
     ELSE CapturesAt(name, str, CHOOSE i \in starts : \A j \in starts : i <= j)

\* parseTransform as it would be with the one-argument form of scale only.
parseTransform_UniformScale(transformStr) ==
  LET translateMatch == Match("translate", transformStr)
      scaleMatch == Match("scale", transformStr)
      rotateMatch == Match("rotate", transformStr)
  IN [translateX |-> IF transformStr # <<>> /\ translateMatch # <<>>
                       THEN parseFloat(translateMatch[1]) ELSE Num(0),
      translateY |-> IF transformStr # <<>> /\ translateMatch # <<>>
                       THEN parseFloat(translateMatch[2]) ELSE Num(0),
      scaleX |-> IF transformStr # <<>> /\ scaleMatch # <<>>
                   THEN parseFloat(scaleMatch[1]) ELSE Num(1),
      scaleY |-> IF transformStr # <<>> /\ scaleMatch # <<>>
                   THEN parseFloat(scaleMatch[1]) ELSE Num(1),
      rotate |-> IF transformStr # <<>> /\ rotateMatch # <<>>
                   THEN parseFloat(rotateMatch[1]) ELSE Num(0)]

\* The result starts as (0, 0, 1, 1, 0) and is returned so for a falsy
\* string; each match overwrites its channels.
parseTransform(transformStr) ==
  LET translateMatch == Match("translate", transformStr)
      scaleMatch == Match("scale", transformStr)
      rotateMatch == Match("rotate", transformStr)
  IN [translateX |-> IF transformStr # <<>> /\ translateMatch # <<>>
                       THEN parseFloat(translateMatch[1]) ELSE Num(0),
      translateY |-> IF transformStr # <<>> /\ translateMatch # <<>>
                       THEN parseFloat(translateMatch[2]) ELSE Num(0),
      scaleX |-> IF transformStr # <<>> /\ scaleMatch # <<>>
                   THEN parseFloat(scaleMatch[1]) ELSE Num(1),
      scaleY |-> IF transformStr # <<>> /\ scaleMatch # <<>>
                   THEN parseFloat(scaleMatch[Len(scaleMatch)]) ELSE Num(1),
      rotate |-> IF transformStr # <<>> /\ rotateMatch # <<>>
                   THEN parseFloat(rotateMatch[1]) ELSE Num(0)]

\* The transforms an update callback hands to buildTransform: the channel
\* values of BuildTransformInputs and values of more than one digit, with
\* and without a sign.
ParseTransformInputs ==
  [fn : {"parseTransform"},
   transform : [translateX : Translations \cup {-12, 100},
                translateY : Translations \cup {-12, 100},
                scaleX : Scales \cup {-1, 10}, scaleY : Scales \cup {-1, 10},
                rotate : Rotations \cup {-45, 360}]]

\* The update callback of playStep writes buildTransform's string to the
\* live part, or removes the attribute when it is null: result holds the
\* attribute.
WriteTransform ==
  /\ args.fn = "parseTransform" /\ result = Undefined
  /\ result' = <<join(buildTransform(args.transform))>>
  /\ UNCHANGED <<abortController, aborted, currentActionName, currentState,
                 live, anims, calls, jobs, log, page, menu, args>>

\* The next playStep reads the attribute back and parses it.
ParseTransform ==
  /\ args.fn = "parseTransform" /\ Len(result) = 1
  /\ result' = Append(result, parseTransform(result[1]))
  /\ UNCHANGED <<abortController, aborted, currentActionName, currentState,
                 live, anims, calls, jobs, log, page, menu, args>>

NextParseTransform == WriteTransform \/ ParseTransform

SpecParseTransform ==
  InitCall(ParseTransformInputs) /\ [][NextParseTransform]_vars

(***************************************************************************)
(* parser.js and the constructor                                           *)
(*                                                                         *)
(* A JSON value is [type, value]: type as typeof gives it ("undefined",    *)
(* "string", "number", "object"), value the string when it is one.  The    *)
(* markup is [parts, hidden, live]: per state group the part names of its  *)
(* elements, the state groups with display none, and the State the         *)
(* #live_character group was cloned from (Null when there is none).        *)
(***************************************************************************)
Json(type, value) == [type |-> type, value |-> value]

\* A route block: an object with an ms entry and a path entry, or a string.
RouteBlock(type, ms, path) == [type |-> type, ms |-> ms, path |-> path]

Thrown(error, markup) ==
  [ok |-> FALSE, error |-> error, markup |-> markup, currentState |-> Null]

\* parseAndValidateJSON: "none" when the input is accepted, else the field
\* the message names.
parseAndValidateJSON(json) ==
  IF json.initial_state.type # "string" \/ json.initial_state.value = ""
    THEN "initial_state"
  ELSE IF json.routes.type # "object" THEN "routes"
  ELSE IF json.actions.type # "object" THEN "actions"
  ELSE IF \E target \in DOMAIN json.routes.blocks :
            LET block == json.routes.blocks[target]
            IN \/ block.type # "object"
               \/ block.ms \notin {Undefined} /\ ~IsNumber(block.ms)
               \/ block.path \in {"string", "numbers"}
    THEN "routes"
  ELSE "none"

\* discoverStates: the state groups of the markup.
discoverStates(markup) == DOMAIN markup.parts

\* discoverParts: "none", or the error of a state group without parts or of
\* two state groups with different part names.
discoverParts(markup) ==
  IF \E s \in DOMAIN markup.parts : markup.parts[s] = {} THEN "noParts"
  ELSE IF \E s, t \in DOMAIN markup.parts : markup.parts[s] # markup.parts[t]
    THEN "partMismatch"
  ELSE "none"

\* setupLiveCharacter: an existing live group is removed, the clone of the
\* initial State's group is appended, every state group is hidden.
setupLiveCharacter(markup, initialState) ==
  [markup EXCEPT !.live = initialState, !.hidden = DOMAIN markup.parts]

\* The constructor as it would be with the live character set up as soon as
\* the state groups are known, before the parts are compared.
constructor_SetupBeforeParts(json, markup) ==
  LET config == parseAndValidateJSON(json)
      initial_state == json.initial_state.value
  IN IF config # "none" THEN Thrown(config, markup)
     ELSE IF discoverStates(markup) = {} THEN Thrown("noStates", markup)
     ELSE IF initial_state \notin discoverStates(markup)
       THEN Thrown("initial_state", markup)
     ELSE LET set == setupLiveCharacter(markup, initial_state)
          IN IF discoverParts(markup) # "none"
               THEN Thrown(discoverParts(markup), set)
               ELSE [ok |-> TRUE, error |-> "none", markup |-> set,
                     currentState |-> initial_state]

\* new VectorFlow({ svgElement, json }) for an SVG element.
constructor(json, markup) ==
  LET config == parseAndValidateJSON(json)
      initial_state == json.initial_state.value
  IN IF config # "none" THEN Thrown(config, markup)
     ELSE IF discoverStates(markup) = {} THEN Thrown("noStates", markup)
     ELSE IF discoverParts(markup) # "none"
       THEN Thrown(discoverParts(markup), markup)
     ELSE IF initial_state \notin discoverStates(markup)
       THEN Thrown("initial_state", markup)
     ELSE [ok |-> TRUE, error |-> "none",
           markup |-> setupLiveCharacter(markup, initial_state),
           currentState |-> initial_state]

\* The configurations: initial_state absent, a number, empty, a State or a
\* name of no state group; routes and actions absent, a string or an
\* object; a route block that is a string, or an object with an ms that is
\* absent, a number or a string and a path that is absent, an array of
\* strings, a string or an array of numbers.
InitialStateValues ==
  {Json("undefined", ""), Json("number", ""), Json("string", ""),
   Json("string", "center"), Json("string", "ghost")}
BlockValues ==
  {RouteBlock("string", Undefined, "none")} \cup
  {RouteBlock("object", ms, path) :
     ms \in {Undefined, Num(40), Text},
     path \in {"none", "strings", "string", "numbers"}}
RoutesValues ==
  {[type |-> "undefined", blocks |-> <<>>], [type |-> "string", blocks |-> <<>>],
   [type |-> "object", blocks |-> <<>>]} \cup
  {[type |-> "object", blocks |-> [target \in {"left"} |-> block]] :
     block \in BlockValues}
ActionsValues == {Json("undefined", ""), Json("string", ""), Json("object", "")}
Configs ==
  [initial_state : InitialStateValues, routes : RoutesValues,
   actions : ActionsValues]

\* The markups: no state group, or "center" alone or with "left", each with
\* the parts body and arm, body alone, or none; with or without a live
\* group left by an earlier instance.
PartSets == {{}, {"body"}, {"body", "arm"}}
Markups ==
  {[parts |-> parts, hidden |-> {}, live |-> old] :
     parts \in {<<>>} \cup [{"center"} -> PartSets]
                     \cup [{"center", "left"} -> PartSets],
     old \in {Null, "stale"}}

ConstructorInputs == [fn : {"constructor"}, json : Configs, markup : Markups]

Construct ==
  /\ args.fn = "constructor" /\ result = Undefined
  /\ result' = <<constructor(args.json, args.markup)>>
  /\ UNCHANGED <<abortController, aborted, currentActionName, currentState,
                 live, anims, calls, jobs, log, page, menu, args>>

InitConstruct == InitCall(ConstructorInputs)

SpecConstruct == InitConstruct /\ [][Construct]_vars

TypeOK ==
  /\ abortController \in 0..MaxPlays
  /\ currentActionName \in DOMAIN Actions \cup {Null}
  /\ Len(aborted) = Len(calls)
  /\ Len(calls) <= MaxPlays

(***************************************************************************)
(* Properties                                                              *)
(***************************************************************************)
Ids == 1..Len(calls)

\* The notifications of one kind emitted for call id so far.
CountEvents(type, id) ==
  Cardinality({k \in 1..Len(log) : log[k].type = type /\ log[k].id = id})

\* The positions of the notifications the step emits.
NewEvents == (Len(log) + 1)..Len(log')

\* The session of call id has been cancelled: the flag of its signal is up.
Cancelled(id) == calls[id].signal # 0 /\ aborted[calls[id].signal]

\* Call id is for a registered action with a non-empty instruction list.
Playable(name) == name \in DOMAIN Actions /\ Len(Actions[name].order) > 0

\* An expansion of call id has failed (the error is in flight or caught).
Failed(c) == c.exc = "error" \/ c.thrown = "error"

\* C1: once a session has been cancelled (by stop() or by a later play()),
\* it never again changes the recorded current State and never again emits
\* a stateChange notification.
C1_CancelledSessionIsSilent ==
  [][/\ currentState' # currentState => ~Cancelled(Head(jobs).id)
     /\ \A k \in NewEvents :
          log'[k].type = "stateChange" => ~Cancelled(log'[k].id)]_vars

\* C2: when stop() interrupts a tween of a session, exactly one actionEnd is
\* emitted for that session and the current State stays the one recorded when
\* stop() was called (as long as no later play() is made).
C2_StopKeepsLastCompletedState ==
  \A id \in Ids :
    calls[id].stoppedAt # Null =>
      /\ CountEvents("actionEnd", id) = 1
      /\ id = Len(calls) => currentState = calls[id].stoppedAt

\* C3: after a play() has run to natural completion, and no later play() was
\* made, no session is active: isPlaying is false and currentAction is null.
C3_CompletionClearsSession ==
  \A id \in Ids :
    (/\ id = Len(calls)
     /\ Playable(calls[id].name)
     /\ calls[id].outcome = "fulfilled" /\ calls[id].thrown = "none")
    => ~isPlaying(World) /\ currentAction(World) = Null

\* The session of the controller the engine holds is running.
ActiveSession(a) ==
  a # 0 /\ ~aborted[a] /\ calls[a].outcome = "pending"

\* C4: play(B), for a playable B, made while the session of A is active,
\* cancels A inside the call, emits actionEnd(A) and then actionStart(B) and
\* nothing else, and leaves B the active session.
C4_SupersedeEndsPreviousFirst ==
  [][(/\ Len(calls') = Len(calls) + 1
      /\ Playable(calls'[Len(calls')].name)
      /\ ActiveSession(abortController))
     => LET a == abortController
            b == Len(calls')
        IN /\ aborted'[a]
           /\ abortController' = b
           /\ currentActionName' = calls'[b].name
           /\ log' = log \o <<Event("actionEnd", calls[a].name, a),
                              Event("actionStart", calls'[b].name, b)>>]_vars

\* C5: the completion signal of a Step is raised only when no tween of its
\* session is running any more: while the continuation that records the
\* State and emits stateChange is queued, no tween of the session runs.
C5_StepSettlesAfterAllTweens ==
  \A k \in 1..Len(jobs) :
    (jobs[k].at = "playSteps" /\ calls[jobs[k].id].promise = "resolved")
    => ~TweenInProgress(World, jobs[k].id)

C7_FailureLeavesStateUnchanged ==
  [][\A id \in Ids :
       (calls[id].thrown = "none" /\ calls'[id].thrown = "error")
       => currentState' = calls[id].before]_vars

\* C8: after the latest play() has failed with an unknown-state error, no
\* session is active: isPlaying is false and currentAction is null.
C8_FailureClearsSession ==
  \A id \in Ids :
    (/\ id = Len(calls)
     /\ Playable(calls[id].name)
     /\ calls[id].thrown = "error")
    => ~isPlaying(World) /\ currentAction(World) = Null

\* C9: an unknown-state failure of play() is reported by exactly one error
\* notification and rejects the call: a failure in flight has its catch block
\* queued, a caught one has emitted one error and rejected, and no call emits
\* an error without having failed, or more than one.
C9_FailureReportedOnce ==
  \A id \in Ids :
    Playable(calls[id].name) =>
      LET c == calls[id]
          errors == CountEvents("error", id)
      IN /\ errors <= 1
         /\ (c.thrown = "error") <=> (errors = 1)
         /\ (c.thrown = "error") <=> (c.outcome = "rejected")
         /\ (c.exc = "error" /\ c.thrown = "none")
              => \E k \in 1..Len(jobs) : jobs[k] = Job(id, "play")

\* A loop that failed in its second iteration, reported and rejected.
C9_Witness ==
  \E id \in Ids :
    /\ Playable(calls[id].name) /\ Actions[calls[id].name].type = "loop"
    /\ calls[id].thrown = "error" /\ calls[id].outcome = "rejected"
    /\ CountEvents("error", id) = 1
    /\ CountEvents("stateChange", id) > 0

\* C10: play(name) with an unregistered name emits one error notification,
\* fails, emits nothing else and changes nothing of the engine: the current
\* State, the controller and its flags, currentAction, the running tweens
\* and the queued continuations of an active session stay as they were.
C10_UnknownActionOnlyReports ==
  [][(/\ Len(calls') = Len(calls) + 1
      /\ calls'[Len(calls')].name \notin DOMAIN Actions)
     => LET id == Len(calls') IN
        /\ log' = Append(log, Event("error", "unknown-action", id))
        /\ calls'[id].outcome = "rejected"
        /\ calls'[id].signal = 0
        /\ \A other \in Ids : calls'[other] = calls[other]
        /\ \A other \in Ids : aborted'[other] = aborted[other]
        /\ ~aborted'[id]
        /\ UNCHANGED <<abortController, currentActionName, currentState,
                       live, anims, jobs>>]_vars

\* play("nope") has just failed while the tweens of an active session run.
C10_Witness ==
  /\ Len(calls) > 1
  /\ calls[Len(calls)].name \notin DOMAIN Actions
  /\ calls[Len(calls)].outcome = "rejected"
  /\ log # <<>> /\ Last(log) = Event("error", "unknown-action", Len(calls))
  /\ isPlaying(World) /\ TweenInProgress(World, abortController)
  /\ currentActionName # Null

\* C11: play(name) of a registered action without instructions returns at
\* once and is a no-op: it emits no notification and leaves the current
\* State, the session (controller, flags, tweens, queued continuations),
\* isPlaying and currentAction as they were.
C11_EmptyActionIsNoOp ==
  [][(/\ Len(calls') = Len(calls) + 1
      /\ calls'[Len(calls')].name \in DOMAIN Actions
      /\ Len(Actions[calls'[Len(calls')].name].order) = 0)
     => LET id == Len(calls') IN
        /\ log' = log
        /\ calls'[id].outcome = "fulfilled"
        /\ calls'[id].signal = 0
        /\ \A other \in Ids : calls'[other] = calls[other]
        /\ \A other \in Ids : aborted'[other] = aborted[other]
        /\ UNCHANGED <<abortController, currentActionName, currentState,
                       live, anims, jobs>>]_vars

\* play("empty") has just returned while the tweens of an active session run.
C11_Witness ==
  /\ Len(calls) > 1
  /\ calls[Len(calls)].name \in DOMAIN Actions
  /\ Len(Actions[calls[Len(calls)].name].order) = 0
  /\ calls[Len(calls)].outcome = "fulfilled"
  /\ isPlaying(World) /\ TweenInProgress(World, abortController)
  /\ currentActionName = calls[abortController].name
  /\ log # <<>> /\ Last(log).id = abortController

\* C12: stop() made while a session is active raises the session's flag,
\* clears the session and emits one actionEnd for its action and nothing
\* else; stop() made while no session is active emits nothing and changes
\* nothing the page can observe (isPlaying, currentAction, the current
\* State); and a second stop() right after the first changes nothing at all.
C12_StopEndsSessionOnce ==
  [][Stop =>
       LET a == abortController IN
       /\ ActiveSession(a) =>
            /\ aborted'[a]
            /\ abortController' = 0
            /\ currentActionName' = Null
            /\ log' = Append(log, Event("actionEnd", calls[a].name, a))
       /\ ~ActiveSession(a) =>
            /\ log' = log
            /\ isPlaying(World)' = isPlaying(World)
            /\ currentAction(World)' = currentAction(World)
            /\ currentState' = currentState
       /\ stop(World)' = World']_vars

\* Call id plays an action that has no Step to make from the State it was
\* called in: every instruction resolves to an empty path.
ZeroSteps(c) ==
  /\ Playable(c.name)
  /\ LET r == expand(Actions[c.name], c.before) IN r.ok /\ r.steps = <<>>

\* C13: a play() of an action that expands to zero Steps emits one
\* actionStart and, once it has ended, exactly one actionEnd, never a
\* stateChange, and leaves the current State as it was.
C13_ZeroStepsStartAndEndOnce ==
  \A id \in Ids :
    ZeroSteps(calls[id]) =>
      /\ CountEvents("actionStart", id) = 1
      /\ CountEvents("stateChange", id) = 0
      /\ CountEvents("actionEnd", id) <= 1
      /\ calls[id].outcome # "pending" => CountEvents("actionEnd", id) = 1
      /\ id = Len(calls) => currentState = calls[id].before

\* The destination States of a list of Steps.
StatesOf(steps) == [k \in 1..Len(steps) |-> steps[k].state]

\* The States visited by running the expansion of a loop action n times in
\* series, each run seeded by the final pointer of the run before it.
RECURSIVE SerialStates(_, _, _)
SerialStates(action, current, n) ==
  IF n = 0 THEN <<>>
  ELSE LET r == expand(action, current)
       IN IF ~r.ok THEN <<>>
          ELSE StatesOf(r.steps) \o SerialStates(action, r.finalState, n - 1)

\* The States call id has recorded, in the order of its stateChange
\* notifications.
StateChanges(id) ==
  LET Mine(e) == e.type = "stateChange" /\ e.id = id
      mine == SelectSeq(log, Mine)
  IN [k \in 1..Len(mine) |-> mine[k].arg]

IsPrefix(s, t) == Len(s) <= Len(t) /\ s = SubSeq(t, 1, Len(s))

\* C14: the States a Loop of count N records are, in order, those of its
\* expansion run N times in series, each run seeded by the State the run
\* before it landed on: at any moment a prefix of them, and all of them, the
\* last being the final State the Loop returns, once it has completed.
C14_LoopExpandsFromLanding ==
  \A id \in Ids :
    (Playable(calls[id].name) /\ Actions[calls[id].name].type = "loop") =>
      LET c == calls[id]
          action == Actions[c.name]
          serial == SerialStates(action, c.before, LoopCount(action))
      IN /\ IsPrefix(StateChanges(id), serial)
         /\ (c.outcome = "fulfilled" /\ c.thrown = "none" /\ ~Cancelled(id))
              => /\ StateChanges(id) = serial
                 /\ c.ret = IF serial = <<>> THEN c.before ELSE Last(serial)

\* A Loop of three iterations completed, each iteration landing on another
\* State than the one before it.
C14_Witness ==
  \E id \in Ids :
    /\ Playable(calls[id].name) /\ Actions[calls[id].name].type = "loop"
    /\ calls[id].outcome = "fulfilled" /\ calls[id].thrown = "none"
    /\ ~Cancelled(id)
    /\ Len(StateChanges(id)) = 3
    /\ StateChanges(id)[1] # StateChanges(id)[2]
    /\ StateChanges(id)[2] # StateChanges(id)[3]
    /\ currentState = StateChanges(id)[3]

\* Call id played a loop to its natural end: not cancelled, not failed.
LoopCompleted(id) ==
  /\ Playable(calls[id].name) /\ Actions[calls[id].name].type = "loop"
  /\ calls[id].outcome = "fulfilled" /\ calls[id].thrown = "none"
  /\ ~Cancelled(id)

\* The page has played a loop in call id; the promise of call id is settled.
LoopPlayed(id) ==
  /\ id \in Ids
  /\ Playable(calls[id].name) /\ Actions[calls[id].name].type = "loop"

PlayEnded(id) == id \in Ids /\ calls[id].outcome # "pending"

\* C15: a Loop of count N that is neither cancelled nor fails has made
\* exactly N iterations when it completes, those without a Step counted, and
\* has emitted one actionEnd; and when every Step's tweens are driven to
\* their end, every play() of a Loop comes to an end.
C15_LoopRunsCountIterations ==
  /\ [](\A id \in Ids :
          LoopCompleted(id) =>
            /\ calls[id].i = LoopCount(Actions[calls[id].name])
            /\ CountEvents("actionEnd", id) = 1)
  /\ \A id \in 1..MaxLoopPlays : LoopPlayed(id) ~> PlayEnded(id)

\* A Loop whose iterations all had no Step to make has completed.
C15_Witness ==
  \E id \in Ids :
    /\ LoopCompleted(id)
    /\ calls[id].i = LoopCount(Actions[calls[id].name])
    /\ calls[id].i > 1
    /\ StateChanges(id) = <<>>
    /\ CountEvents("actionEnd", id) = 1

\* The path the block of the target declares for a source key, if any.
Declares(routes, target, source) ==
  HasRoute(routes, target) /\ source \in DOMAIN routes[target].paths

\* C16: when the table declares a path for (target, source), resolvePath
\* returns that path, whether or not the block also declares a wildcard.
C16_SourcePathWins ==
  (Returned("resolvePath")
   /\ Declares(args.routes, args.targetState, args.currentState))
  => result[1] = args.routes[args.targetState].paths[args.currentState]

\* The block declares a path for the source and another one as wildcard.
C16_Witness ==
  /\ Returned("resolvePath")
  /\ Declares(args.routes, args.targetState, args.currentState)
  /\ Declares(args.routes, args.targetState, "*")
  /\ args.routes[args.targetState].paths["*"]
       # args.routes[args.targetState].paths[args.currentState]
  /\ result[1] = args.routes[args.targetState].paths[args.currentState]

\* C17: when the block of the target declares a wildcard path and no path
\* for the source, resolvePath returns the wildcard path.
C17_WildcardWhenNoSourcePath ==
  (Returned("resolvePath")
   /\ Declares(args.routes, args.targetState, "*")
   /\ ~Declares(args.routes, args.targetState, args.currentState))
  => result[1] = args.routes[args.targetState].paths["*"]

\* The block declares a wildcard of two States and a path for another source
\* only.
C17_Witness ==
  /\ Returned("resolvePath")
  /\ Declares(args.routes, args.targetState, "*")
  /\ ~Declares(args.routes, args.targetState, args.currentState)
  /\ DOMAIN args.routes[args.targetState].paths = SourceKeys
  /\ Len(result[1]) = MaxPathLen
  /\ result[1] # <<args.targetState>>

\* Every path the table declares has a State in it.
DeclaredPathsNonEmpty(routes) ==
  \A key \in DOMAIN routes :
    \A source \in DOMAIN routes[key].paths : routes[key].paths[source] # <<>>

\* C18: resolvePath returns the path of the target alone when the table has
\* no block for the target, and when the block declares neither a path for
\* the source nor a wildcard; and on a table whose declared paths are not
\* empty it never returns an empty path.
C18_FallbackIsTargetAlone ==
  Returned("resolvePath") =>
    /\ ~HasRoute(args.routes, args.targetState)
         => result[1] = <<args.targetState>>
    /\ (/\ HasRoute(args.routes, args.targetState)
        /\ ~Declares(args.routes, args.targetState, args.currentState)
        /\ ~Declares(args.routes, args.targetState, "*"))
         => result[1] = <<args.targetState>>
    /\ DeclaredPathsNonEmpty(args.routes) => result[1] # <<>>

\* The block of the target declares a path for another source only.
C18_Witness ==
  /\ Returned("resolvePath")
  /\ HasRoute(args.routes, args.targetState)
  /\ DOMAIN args.routes[args.targetState].paths = {"center"}
  /\ args.currentState # "center"
  /\ result[1] = <<args.targetState>>

\* A candidate that counts: a finite number above zero.
FinitePositive(v) == IsFinite(v) /\ Val(v) > 0

\* C19: resolveMs returns the first of actionMs, routeMs, jsonMs that is a
\* finite number above zero, and 120 when none is.
C19_FirstFinitePositive ==
  Returned("resolveMs") =>
    result[1] = IF FinitePositive(args.actionMs) THEN args.actionMs
                ELSE IF FinitePositive(args.routeMs) THEN args.routeMs
                ELSE IF FinitePositive(args.jsonMs) THEN args.jsonMs
                ELSE Num(120)

\* The expansion of the first n entries of the instruction list in args,
\* and the Steps entry i contributes: those of expanding entry i alone from
\* the pointer the entries before it leave.
ExpandFirst(n) ==
  Expand(args.fn, SubSeq(args.order, 1, n), args.currentState, args.routes,
         args.actionMs, args.jsonMs)
StepsOfEntry(i) ==
  Expand(args.fn, <<args.order[i]>>, ExpandFirst(i - 1).finalState,
         args.routes, args.actionMs, args.jsonMs).steps

\* C20: in Sequence and in Direct expansion, a Step to a State V emitted for
\* an instruction entry R other than V takes, as its route-level candidate,
\* the duration override of the block of V: its duration is
\* resolveMs(actionMs, routes[V].ms, jsonMs), whatever routes[R].ms is.
C20_StepTakesVisitedStateMs ==
  (/\ args.fn \in {"expandSequence", "expandDirect"}
   /\ result # Undefined /\ result[1].ok)
  => \A i \in 1..Len(args.order) :
       \A k \in 1..Len(StepsOfEntry(i)) :
         LET step == result[1].steps[Len(ExpandFirst(i - 1).steps) + k]
         IN /\ step.state = StepsOfEntry(i)[k].state
            /\ step.state # args.order[i]
                 => step.ms = resolveMs(args.actionMs,
                                        RouteBlockMs(args.routes, step.state),
                                        args.jsonMs)

\* The States visited by the instruction entries from entry i on, the
\* pointer being at `pointer`: for each entry its path resolved against the
\* pointer, less a leading pointer, the pointer moving to each visited State.
RECURSIVE Visits(_, _, _, _)
Visits(order, i, pointer, routes) ==
  IF i > Len(order) THEN <<>>
  ELSE LET path == normalizePath(resolvePath(order[i], pointer, routes), pointer)
       IN path \o Visits(order, i + 1,
                         IF path = <<>> THEN pointer ELSE Last(path), routes)

\* C21: Sequence expansion returns one Step per State of
\* normalizePath(resolvePath(entry, pointer), pointer), concatenated over the
\* entries in order, each entry resolved against the running pointer; the
\* final pointer is the last visited State, or the start State when there is
\* no Step.
C21_SequenceConcatenatesPaths ==
  (Returned("expandSequence") /\ result[1].ok)
  => LET visits == Visits(args.order, 1, args.currentState, args.routes)
     IN /\ StatesOf(result[1].steps) = visits
        /\ result[1].finalState =
             IF visits = <<>> THEN args.currentState ELSE Last(visits)

\* Two entries, the second resolved to another path from the pointer the
\* first one left than from the start State, and one leading no-op dropped.
C21_Witness ==
  /\ Returned("expandSequence") /\ result[1].ok
  /\ Len(args.order) > 1
  /\ resolvePath(args.order[2], ExpandFirst(1).finalState, args.routes)
       # resolvePath(args.order[2], args.currentState, args.routes)
  /\ resolvePath(args.order[1], args.currentState, args.routes)[1]
       = args.currentState
  /\ Len(result[1].steps) > 2

\* The destinations of the instruction entries from entry i on in Direct
\* expansion: for each entry the last element of its resolved path, unless
\* the pointer is there already.
RECURSIVE Destinations(_, _, _, _)
Destinations(order, i, pointer, routes) ==
  IF i > Len(order) THEN <<>>
  ELSE LET destination == Last(resolvePath(order[i], pointer, routes))
       IN IF destination = pointer
            THEN Destinations(order, i + 1, pointer, routes)
            ELSE <<destination>> \o Destinations(order, i + 1, destination, routes)

RECURSIVE UnknownIn(_, _)
UnknownIn(path, k) ==
  IF k > Len(path) THEN <<>>
  ELSE IF path[k] \notin ValidStates THEN <<path[k]>>
  ELSE UnknownIn(path, k + 1)

\* The first instruction entry, from entry i on, whose normalized path holds
\* a name that is no known State, as <<entry, name>>, or <<>> when there is
\* none.
RECURSIVE FirstUnknown(_, _, _, _)
FirstUnknown(order, i, pointer, routes) ==
  IF i > Len(order) THEN <<>>
  ELSE LET path == normalizePath(resolvePath(order[i], pointer, routes), pointer)
           unknown == UnknownIn(path, 1)
       IN IF unknown # <<>> THEN <<order[i], unknown[1]>>
          ELSE FirstUnknown(order, i + 1,
                            IF path = <<>> THEN pointer ELSE Last(path), routes)

\* C23: Sequence expansion fails exactly when a normalized resolved path
\* holds a name that is no known State; the failure names the entry's route
\* key and that name, and no Step list is returned.
C23_SequenceFailsOnUnknownState ==
  Returned("expandSequence") =>
    LET unknown == FirstUnknown(args.order, 1, args.currentState, args.routes)
    IN /\ result[1].ok <=> unknown = <<>>
       /\ ~result[1].ok =>
            /\ result[1].routeKey = unknown[1]
            /\ result[1].state = unknown[2]
            /\ result[1].steps = <<>>

\* The second entry's path holds "ghost" after a known State: the Steps made
\* up to there are not returned.
C23_Witness ==
  /\ Returned("expandSequence") /\ ~result[1].ok
  /\ Len(args.order) > 1
  /\ ExpandFirst(1).ok /\ ExpandFirst(1).steps # <<>>
  /\ result[1].routeKey = args.order[2] /\ result[1].state = "ghost"
  /\ normalizePath(resolvePath(args.order[2], ExpandFirst(1).finalState,
                               args.routes),
                   ExpandFirst(1).finalState)[1] \in ValidStates
  /\ result[1].steps = <<>>

C24_FailureWitness ==
  /\ Returned("expandSequence") /\ Len(result) = MaxCalls
  /\ ~result[2].ok /\ result[2].state = "ghost"

\* Some path resolved for an entry, from entry i on, holds a name that is no
\* known State.  The pointer runs as the strategy moves it: over the
\* normalized path in Sequence, to the last element in Direct.
RECURSIVE ResolvesUnknown(_, _, _, _, _)
ResolvesUnknown(fn, order, i, pointer, routes) ==
  IF i > Len(order) THEN FALSE
  ELSE LET resolved == resolvePath(order[i], pointer, routes)
           path == IF fn = "expandDirect" THEN resolved
                   ELSE normalizePath(resolved, pointer)
       IN \/ UnknownIn(path, 1) # <<>>
          \/ ResolvesUnknown(fn, order, i + 1,
                             IF path = <<>> THEN pointer ELSE Last(path), routes)

\* C28: in both strategies the expansion fails when a path resolved for an
\* entry holds a name that is no known State, a waypoint before the last
\* element of a path of Direct expansion included.
C28_UnknownStateAnywhereFails ==
  \A fn \in {"expandSequence", "expandDirect"} :
    (Returned(fn) /\ ResolvesUnknown(fn, args.order, 1, args.currentState,
                                     args.routes))
    => ~result[1].ok

\* The part of C28 that holds: Sequence expansion, and the last element of a
\* path of Direct expansion.
C28_SequenceAndLastElementFail ==
  /\ (Returned("expandSequence")
      /\ ResolvesUnknown("expandSequence", args.order, 1, args.currentState,
                         args.routes))
     => ~result[1].ok
  /\ (Returned("expandDirect") /\ result[1].ok)
     => \A k \in 1..Len(result[1].steps) :
          result[1].steps[k].state \in ValidStates

\* The live parts carry every numeric attribute and the translation that the
\* snapshot of State s records, with the recorded values.
AtSnapshot(parts, s) ==
  \A partName \in Parts :
    LET targetSnap == StateSnapshots[s][partName]
        liveSnap == parts[partName]
    IN /\ \A attr \in DOMAIN targetSnap.numericAttrs :
            /\ attr \in DOMAIN liveSnap.numericAttrs
            /\ liveSnap.numericAttrs[attr] = targetSnap.numericAttrs[attr]
       /\ liveSnap.tx = targetSnap.tx

\* In this step the promise of the Step in flight of call id is fulfilled.
StepCompletes(id) ==
  /\ id \in 1..Len(calls')
  /\ calls'[id].promise = "resolved"
  /\ id \in Ids => \/ calls[id].promise # "resolved"
                    \/ calls'[id].steps # calls[id].steps

\* C25: when a Step to State S completes, every live part has the numeric
\* attributes and the transform of S's snapshot, whatever it had before.
C25_CompletedStepReachesSnapshot ==
  [][\A id \in 1..Len(calls') :
       StepCompletes(id) => AtSnapshot(live', calls'[id].steps[1].state)]_vars

\* In this step the session of call id is cancelled while a tween of its Step
\* is running.
CancelsInFlight(id) ==
  /\ id \in Ids /\ calls[id].signal # 0
  /\ ~aborted[calls[id].signal] /\ aborted'[calls[id].signal]
  /\ TweenInProgress(World, id)

\* No tween of a cancelled session is running.
TweensHalted(tweens, flags) ==
  \A k \in 1..Len(tweens) : ~flags[tweens[k].signal]

\* C26: cancelling a Step in flight halts its tweens in the same task and
\* rejects the Step's promise; the live values are those of the instant of
\* the cancellation, and no tween of the cancelled Step runs afterwards.
C26_CancelHaltsAndRejects ==
  [][/\ \A id \in Ids :
          CancelsInFlight(id) => /\ live' = live
                                 /\ calls'[id].promise = "rejected"
     /\ TweensHalted(anims', aborted')]_vars

\* The part of C26 that holds: the tweens are halted and the partial values
\* stay.
C26_CancelHaltsTweens ==
  [][/\ \A id \in Ids : CancelsInFlight(id) => live' = live
     /\ TweensHalted(anims', aborted')]_vars

\* The notification at position k of the next log is the stateChange of the
\* Step at the head of its call's Steps: the Step's promise is fulfilled, the
\* Step leaves the Steps to play, and the current State is the State carried.
RecordsHeadStep(k) ==
  LET id == log'[k].id IN
  /\ calls[id].steps # <<>>
  /\ calls[id].promise = "resolved"
  /\ log'[k].arg = calls[id].steps[1].state
  /\ calls'[id].steps = Tail(calls[id].steps)
  /\ currentState' = log'[k].arg

\* C27: a stateChange is emitted once for each completed Step of a session,
\* in the order of the Steps, carrying the Step's destination, with the
\* current State already at that destination; none is emitted for a Step
\* that has not completed (a Step with a tween still running).
C27_StateChangePerCompletedStep ==
  [][\A k \in NewEvents :
       log'[k].type = "stateChange"
       => /\ RecordsHeadStep(k)
          /\ ~TweenInProgress(World, log'[k].id)]_vars

\* The part of C27 that holds: one stateChange per Step whose promise is
\* fulfilled, in order, with the current State updated first.
C27_StateChangePerFulfilledStep ==
  [][\A k \in NewEvents :
       log'[k].type = "stateChange" => RecordsHeadStep(k)]_vars

\* The color string cannot be parsed into channels.
Unparseable(color) == hexToRgb(color) = <<>>

\* The frames of the tween before the end of its duration.
EarlyTicks == {k \in 1..Len(result) : k * FrameMs < args.ms}

\* C29: a color whose current or target value cannot be parsed keeps its
\* starting value at every tick before the end of the duration and takes the
\* target value at the end.
C29_UnparsedColorJumpsAtEnd ==
  (Returned("lerpColor") /\ (Unparseable(args.from) \/ Unparseable(args.to)))
  => \A k \in 1..Len(result) :
       result[k] = IF k \in EarlyTicks THEN args.from ELSE args.to

\* The part of C29 that holds: such a color is not interpolated (it is never
\* anything but the starting or the target value) and has the target value
\* at the end of the duration.
C29_UnparsedColorIsNotInterpolated ==
  (Returned("lerpColor") /\ (Unparseable(args.from) \/ Unparseable(args.to)))
  => \A k \in 1..Len(result) :
       /\ result[k] \in {args.from, args.to}
       /\ k \notin EarlyTicks => result[k] = args.to

\* A parsed pair of colors is interpolated channel by channel: half way from
\* '#00f' to '#f00' the live value is '#800080'.
C29_InterpolatedWitness ==
  /\ Returned("lerpColor") /\ args.ms = 2 * FrameMs
  /\ args.from = <<"0", "0", "f">> /\ args.to = <<"f", "0", "0">>
  /\ result = <<<<"8", "0", "0", "0", "8", "0">>, <<"f", "f", "0", "0", "0", "0">>>>

\* The canonical order of the components.
CanonicalOrder == <<"translate", "rotate", "scale">>
Rank(name) == CHOOSE r \in 1..Len(CanonicalOrder) : CanonicalOrder[r] = name

\* The transform string has a component of that name.
Emits(out, name) == \E k \in 1..Len(out) : out[k].name = name

\* C30: buildTransform writes translate, rotate and scale in that order,
\* each with the values of its channel, and leaves out a channel at its
\* identity (translation 0,0, rotation 0, scale 1,1); the identity gives no
\* transform.
C30_CanonicalMinimalTransform ==
  Returned("buildTransform") =>
    LET t == args.transform
        out == result[1]
    IN /\ \A j, k \in 1..Len(out) : j < k => Rank(out[j].name) < Rank(out[k].name)
       /\ Emits(out, "translate") <=> (t.translateX # 0 \/ t.translateY # 0)
       /\ Emits(out, "rotate") <=> t.rotate # 0
       /\ Emits(out, "scale") <=> (t.scaleX # 1 \/ t.scaleY # 1)
       /\ \A k \in 1..Len(out) :
            out[k].values = CASE out[k].name = "translate" -> <<t.translateX, t.translateY>>
                              [] out[k].name = "rotate" -> <<t.rotate>>
                              [] out[k].name = "scale" -> <<t.scaleX, t.scaleY>>
       /\ (t.translateX = 0 /\ t.translateY = 0 /\ t.rotate = 0
           /\ t.scaleX = 1 /\ t.scaleY = 1) => out = <<>>

\* A transform with no channel at its identity is written with its three
\* components.
C30_Witness ==
  /\ Returned("buildTransform")
  /\ args.transform.translateX # 0 /\ args.transform.rotate # 0
  /\ args.transform.scaleY # 1
  /\ Len(result[1]) = 3

\* The identity transform is written as no transform.
C30_IdentityWitness ==
  /\ Returned("buildTransform")
  /\ args.transform = [translateX |-> 0, translateY |-> 0, scaleX |-> 1,
                       scaleY |-> 1, rotate |-> 0]
  /\ result[1] = <<>>

\* A required field of the configuration is missing or malformed.
ConfigMalformed(json) ==
  \/ json.initial_state \notin {Json("string", "center"), Json("string", "ghost")}
  \/ json.routes.type # "object"
  \/ json.actions.type # "object"
  \/ \E target \in DOMAIN json.routes.blocks :
       \/ json.routes.blocks[target].type # "object"
       \/ json.routes.blocks[target].ms = Text
       \/ json.routes.blocks[target].path \notin {"none", "strings"}

\* The configured initial State is the name of no state group.
InitialStateUnknown(json, markup) ==
  json.initial_state.type = "string"
  /\ json.initial_state.value \notin DOMAIN markup.parts

\* Two state groups have different part names.
PartsDiffer(markup) ==
  \E s, t \in DOMAIN markup.parts : markup.parts[s] # markup.parts[t]

\* C31: construction fails when a required field of the configuration is
\* missing or malformed, when the initial State is no discovered State, or
\* when the part names differ between States; a failed construction leaves
\* the markup as it was (no state group hidden, no live group inserted).
C31_FailedConstructionLeavesMarkup ==
  Returned("constructor") =>
    /\ (\/ ConfigMalformed(args.json)
        \/ InitialStateUnknown(args.json, args.markup)
        \/ PartsDiffer(args.markup)) => ~result[1].ok
    /\ ~result[1].ok => result[1].markup = args.markup
    /\ result[1].ok => /\ result[1].markup.live = args.json.initial_state.value
                       /\ result[1].markup.hidden = DOMAIN args.markup.parts

\* A well-formed configuration whose initial State is a state group, and a
\* markup whose two state groups have different parts: no engine, and the
\* markup is as it was.
C31_Witness ==
  /\ Returned("constructor") /\ ~result[1].ok
  /\ ~ConfigMalformed(args.json)
  /\ ~InitialStateUnknown(args.json, args.markup)
  /\ PartsDiffer(args.markup)
  /\ result[1].error = "partMismatch"
  /\ result[1].markup = args.markup

\* A construction that succeeds: the live group is inserted and the state
\* groups are hidden.
C31_EngineWitness ==
  /\ Returned("constructor") /\ result[1].ok
  /\ result[1].markup.hidden = {"center", "left"}
  /\ result[1].markup.live = "center"

\* The play() call of id has returned without an exception and without being
\* cancelled: its session completed naturally.
CompletedNaturally(id) ==
  calls[id].outcome = "fulfilled" /\ ~Cancelled(id)

\* C32: a session has at most one actionEnd, none without its actionStart,
\* and exactly one once it has completed naturally or has been cancelled.
C32_ActionEndMatchesActionStart ==
  \A id \in Ids :
    LET starts == CountEvents("actionStart", id)
        ends == CountEvents("actionEnd", id)
    IN /\ starts <= 1
       /\ ends <= starts
       /\ (starts = 1 /\ (CompletedNaturally(id) \/ Cancelled(id))) => ends = 1

\* The part of C32 that holds: no actionEnd without the session's
\* actionStart.
C32_NoActionEndBeforeStart ==
  \A id \in Ids :
    CountEvents("actionEnd", id) > 0 => CountEvents("actionStart", id) = 1

\* The session of call id has started and has not ended: its actionStart is
\* emitted, neither its actionEnd nor an error is.
SessionOpen(id) ==
  /\ CountEvents("actionStart", id) = 1
  /\ CountEvents("actionEnd", id) = 0
  /\ CountEvents("error", id) = 0

\* C33: from its actionStart until its actionEnd or its error, a session's
\* action is the current action and the engine is playing, whatever the
\* continuation of an earlier, superseded play() does in between.
C33_OpenSessionIsCurrent ==
  \A id \in Ids :
    SessionOpen(id) => /\ currentAction(World) = calls[id].name
                       /\ isPlaying(World)

\* The part of C33 that holds: the engine is playing, with the controller of
\* that session, for as long as the session is open and not cancelled.
C33_OpenSessionIsPlaying ==
  \A id \in Ids :
    (SessionOpen(id) /\ ~Cancelled(id))
    => isPlaying(World) /\ abortController = id

\* C34: when a listener of actionStart(A) calls play(B) or stop(), the
\* session of A is cancelled for good: no tween of a Step of A runs once A's
\* controller is aborted, and no error is reported for A.
C34_ListenerKeepsSingleSession ==
  \A id \in Ids :
    aborted[id] => /\ ~TweenInProgress(World, id)
                   /\ CountEvents("error", id) = 0

\* The error part of C34 alone: no call of these actions, none of which can
\* fail, reports an error.
C34_NoErrorFromListener ==
  \A id \in Ids : CountEvents("error", id) = 0

\* C35: the current State is a discovered State in every reachable state of
\* the engine, whatever was played, stopped, completed, cancelled or failed.
C35_CurrentStateIsDiscovered ==
  currentState \in ValidStates

\* A loop has completed a Step and then failed on a path to "ghost"; another
\* play() has been cancelled: the current State is the last State recorded.
C35_Witness ==
  /\ \E id \in Ids : /\ calls[id].thrown = "error"
                      /\ CountEvents("stateChange", id) > 0
                      /\ CountEvents("error", id) = 1
  /\ \E id \in Ids : Cancelled(id)
  /\ currentState = "left"

\* Entry i of the instruction list in args is reached (the entries before
\* it expand) and its resolved path is a declared empty path.
ResolvesEmpty(i) ==
  /\ i \in 1..Len(args.order)
  /\ ExpandFirst(i - 1).ok
  /\ resolvePath(args.order[i], ExpandFirst(i - 1).finalState, args.routes) = <<>>

\* The instruction list without its entry i.
Without(order, i) ==
  SubSeq(order, 1, i - 1) \o SubSeq(order, i + 1, Len(order))

\* C36: for an instruction whose resolved path is empty, Sequence expansion
\* emits no Step and goes on with the next instruction (the result is that of
\* the list without the instruction); Direct expansion fails with the
\* unknown-state error for that instruction.
C36_EmptyPathSkippedOrFails ==
  \A i \in 1..MaxOrderLen :
    /\ (Returned("expandSequence") /\ ResolvesEmpty(i))
       => /\ ExpandFirst(i) = ExpandFirst(i - 1)
          /\ result[1] = Expand(args.fn, Without(args.order, i),
                                args.currentState, args.routes,
                                args.actionMs, args.jsonMs)
    /\ (Returned("expandDirect") /\ ResolvesEmpty(i))
       => /\ ~result[1].ok
          /\ result[1].routeKey = args.order[i]
          /\ result[1].steps = <<>>

\* Sequence expansion of <<"hop", "left">>, where "hop" has an empty path:
\* the Steps are those of "left" alone.
C36_Witness ==
  /\ Returned("expandSequence") /\ ResolvesEmpty(1)
  /\ Len(args.order) = 2
  /\ result[1].ok /\ Len(result[1].steps) = 2

\* Direct expansion of <<"left", "hop">>: "left" gives a Step, the empty path
\* of "hop" fails the expansion.
C36_DirectWitness ==
  /\ Returned("expandDirect") /\ ResolvesEmpty(2)
  /\ ExpandFirst(1).steps # <<>>
  /\ ~result[1].ok /\ result[1].routeKey = "hop"

\* C37: every Step an expansion returns has a duration above zero and a
\* destination among the known States.
C37_StepsArePlayable ==
  (args.fn \in {"expandSequence", "expandDirect"} /\ result # Undefined)
  => \A k \in 1..Len(result[1].steps) :
       LET step == result[1].steps[k]
       IN /\ IsNumber(step.ms) /\ Positive(step.ms)
          /\ step.state \in ValidStates

\* C37, for resolveMs called on its own: the value returned is a number
\* above zero for every combination of candidates.
C37_ResolveMsIsPositive ==
  Returned("resolveMs") => IsNumber(result[1]) /\ Positive(result[1])

\* An action override of 0 and a route override of -1: the Step of "hop"
\* takes the global duration.
C37_Witness ==
  /\ result # Undefined /\ args.fn \in {"expandSequence", "expandDirect"}
  /\ args.actionMs = Num(0) /\ args.routes.hop.ms = Num(-1)
  /\ args.order[1] = "hop"
  /\ result[1].ok /\ result[1].steps # <<>>
  /\ result[1].steps[1].ms = args.jsonMs

\* C38: a transform with integer channel values that buildTransform writes
\* and parseTransform reads back is the same transform, and parsing an absent
\* transform gives the identity: no translation, scale 1 and 1, no rotation.
ChannelValues(t) == [channel \in DOMAIN t |-> Num(t[channel])]

C38_TransformRoundTrip ==
  (args.fn = "parseTransform" /\ Len(result) = 2)
  => /\ result[2] = ChannelValues(args.transform)
     /\ result[1] = <<>>
          => result[2] = [translateX |-> Num(0), translateY |-> Num(0),
                          scaleX |-> Num(1), scaleY |-> Num(1),
                          rotate |-> Num(0)]

C38_Witness ==
  /\ args.fn = "parseTransform" /\ Len(result) = 2
  /\ args.transform.translateX = -12 /\ args.transform.translateY = 100
  /\ args.transform.scaleX = 10 /\ args.transform.scaleY = -1
  /\ args.transform.rotate = -45
  /\ result[2] = ChannelValues(args.transform)

C38_AbsentWitness ==
  /\ args.fn = "parseTransform" /\ Len(result) = 2
  /\ result[1] = <<>>
  /\ result[2].scaleX = Num(1) /\ result[2].rotate = Num(0)

====
